---------------------------- MODULE Spec2Model ----------------------------
(***************************************************************************)
(* A model of the expression-evaluation core of sparql-engine: the RDF     *)
(* term and literal classes, the SPARQL operation and aggregation tables,  *)
(* the expression compiler (SPARQLExpression), the Bindings container,     *)
(* the GROUP BY operator, the results formatter and the property paths.    *)
(*                                                                         *)
(* Every JavaScript value is a record with a field cls naming its class    *)
(* (or primitive type).  A call that can throw yields a completion record: *)
(* [tag |-> "ok", val |-> v] or [tag |-> "throw", err |-> class name].     *)
(***************************************************************************)
EXTENDS Integers, Sequences, FiniteSets, TLC

(***************************************************************************)
(* Bounds of the model.                                                    *)
(***************************************************************************)
MaxInt == 2
MaxEvals == 2
MaxSource == 3
MaxCalls == 2
MaxVariables == 4

(***************************************************************************)
(* Completions.                                                            *)
(***************************************************************************)
Ok(v) == [tag |-> "ok", val |-> v]
Throw(e) == [tag |-> "throw", err |-> e]
IsOk(c) == c.tag = "ok"
IsThrow(c) == c.tag = "throw"

\* JavaScript evaluates an argument or an initialiser once, before its uses:
\* The({ e : v \in {x} }) is e with v the value of x, and Tuple(f) is the
\* sequence f with every element evaluated.
The(S) == CHOOSE r \in S : TRUE
Tuple(f) == SubSeq(f, 1, Len(f))

(***************************************************************************)
(* JavaScript primitives.                                                  *)
(***************************************************************************)
JSNull == [cls |-> "null"]
JSUndefined == [cls |-> "undefined"]
JSString(s) == [cls |-> "string", s |-> s]
JSArray(items) == [cls |-> "array", items |-> items]
JSMap(entries) == [cls |-> "Map", entries |-> entries]

\* A JavaScript number: an exact fraction n/d in lowest terms with d > 0;
\* d = 0 stands for the non-finite values (n = 0 NaN, n = 1 Infinity,
\* n = -1 -Infinity).
RECURSIVE Gcd(_, _)
Gcd(a, b) == IF b = 0 THEN a ELSE Gcd(b, a % b)
Abs(n) == IF n < 0 THEN -n ELSE n
Sign(n) == IF n < 0 THEN -1 ELSE IF n > 0 THEN 1 ELSE 0
Frac(n, d) ==
  IF d = 0 THEN [cls |-> "number", n |-> Sign(n), d |-> 0]
  ELSE LET g == Gcd(Abs(n), Abs(d))
           s == IF d < 0 THEN -1 ELSE 1
       IN [cls |-> "number", n |-> (s * n) \div g, d |-> (s * d) \div g]
Num(n) == Frac(n, 1)
NaN == Frac(0, 0)
IsFinite(x) == x.d # 0
NumAdd(x, y) ==
  IF IsFinite(x) /\ IsFinite(y) THEN Frac(x.n * y.d + y.n * x.d, x.d * y.d)
  ELSE IF IsFinite(x) THEN y
  ELSE IF IsFinite(y) THEN x
  ELSE IF x.n = y.n THEN x ELSE NaN
NumNeg(x) == [x EXCEPT !.n = -x.n]
NumSub(x, y) == NumAdd(x, NumNeg(y))
NumMul(x, y) ==
  IF IsFinite(x) /\ IsFinite(y) THEN Frac(x.n * y.n, x.d * y.d)
  ELSE Frac(Sign(x.n) * Sign(y.n), 0)
NumDiv(x, y) ==
  IF IsFinite(x) /\ IsFinite(y) THEN Frac(x.n * y.d * Sign(y.n), x.d * Abs(y.n))
  ELSE IF IsFinite(x) THEN (IF y.n = 0 THEN NaN ELSE Num(0))
  ELSE IF IsFinite(y) THEN Frac(x.n * (IF y.n < 0 THEN -1 ELSE 1), 0)
  ELSE NaN


JSBool(b) == [cls |-> "boolean", b |-> b]

\* Number(s) on a string: an optional sign, decimal digits and an optional
\* fraction; the empty string is 0; "Infinity" is Infinity; anything else NaN.
DigitVal(c) ==
  CASE c = "0" -> 0 [] c = "1" -> 1 [] c = "2" -> 2 [] c = "3" -> 3
    [] c = "4" -> 4 [] c = "5" -> 5 [] c = "6" -> 6 [] c = "7" -> 7
    [] c = "8" -> 8 [] c = "9" -> 9 [] OTHER -> -1
RECURSIVE ParseDigits(_, _)
ParseDigits(s, acc) ==
  IF s = "" THEN acc
  ELSE IF DigitVal(Head(s)) < 0 THEN -1
  ELSE ParseDigits(Tail(s), acc * 10 + DigitVal(Head(s)))
RECURSIVE IndexOf(_, _, _)
IndexOf(s, c, i) ==
  IF i > Len(s) THEN 0
  ELSE IF SubSeq(s, i, i) = c THEN i ELSE IndexOf(s, c, i + 1)
RECURSIVE Pow10(_)
Pow10(k) == IF k = 0 THEN 1 ELSE 10 * Pow10(k - 1)
ParseUnsigned(s) ==
  LET dot == IndexOf(s, ".", 1)
      ip == IF dot = 0 THEN s ELSE SubSeq(s, 1, dot - 1)
      fp == IF dot = 0 THEN "" ELSE SubSeq(s, dot + 1, Len(s))
      iv == ParseDigits(ip, 0)
      fv == ParseDigits(fp, 0)
  IN IF s = "Infinity" THEN Frac(1, 0)
     ELSE IF s = "" \/ s = "." \/ iv < 0 \/ fv < 0 THEN NaN
     ELSE Frac(iv * Pow10(Len(fp)) + fv, Pow10(Len(fp)))
Number(s) ==
  IF s = "" THEN Num(0)
  ELSE IF Head(s) = "-" THEN NumNeg(ParseUnsigned(Tail(s)))
  ELSE IF Head(s) = "+" THEN ParseUnsigned(Tail(s))
  ELSE ParseUnsigned(s)

\* `${x}` for a JavaScript number: integers print in decimal; a fraction prints
\* its decimal expansion (at most MaxFracDigits digits, exact for the
\* fractions the model reaches).
MaxFracDigits == 6
RECURSIVE FracDigits(_, _, _)
FracDigits(r, d, k) ==
  IF r = 0 \/ k = 0 THEN ""
  ELSE ToString((r * 10) \div d) \o FracDigits((r * 10) % d, d, k - 1)
NumToString(x) ==
  IF x.d = 0 THEN (IF x.n = 0 THEN "NaN" ELSE IF x.n > 0 THEN "Infinity" ELSE "-Infinity")
  ELSE IF x.d = 1 THEN ToString(x.n)
  ELSE (IF x.n < 0 THEN "-" ELSE "") \o ToString(Abs(x.n) \div x.d)
       \o "." \o FracDigits(Abs(x.n) % x.d, x.d, MaxFracDigits)

\* ToString and ToNumber of the primitives the fallback paths can meet.
JSToString(v) ==
  CASE v.cls = "string" -> v.s
    [] v.cls = "number" -> NumToString(v)
    [] v.cls = "boolean" -> (IF v.b THEN "true" ELSE "false")
    [] v.cls = "null" -> "null"
    [] v.cls = "undefined" -> "undefined"
JSToNumber(v) ==
  CASE v.cls = "string" -> Number(v.s)
    [] v.cls = "number" -> v
    [] v.cls = "boolean" -> (IF v.b THEN Num(1) ELSE Num(0))
    [] v.cls = "null" -> Num(0)
    [] v.cls = "undefined" -> NaN
\* x + y: concatenation when either operand is a string, addition otherwise.
JSPlus(x, y) ==
  IF x.cls = "string" \/ y.cls = "string"
  THEN JSString(JSToString(x) \o JSToString(y))
  ELSE NumAdd(JSToNumber(x), JSToNumber(y))
\* x === y on primitives (NaN is not equal to itself).
JSStrictEq(x, y) ==
  /\ x = y
  /\ ~(x.cls = "number" /\ x.d = 0 /\ x.n = 0)

(***************************************************************************)
(* RDF terms (rdf-terms.ts).                                               *)
(***************************************************************************)
XSD(name) == "http://www.w3.org/2001/XMLSchema#" \o name

IRI(value) == [cls |-> "IRI", value |-> value]
\* new Variable(value).  Two Variable objects are the same object only when
\* they are the one the registry holds for a name: ref tells the registry's
\* object ("interned") from an object built outside it ("fresh").
NewVariable(value, ref) == [cls |-> "Variable", value |-> value, ref |-> ref]
Literal(cls, value, datatype, lang, js) ==
  [cls |-> cls, value |-> value, datatype |-> datatype, lang |-> lang, js |-> js]

LiteralClasses ==
  {"NumericLiteral", "StringLiteral", "BooleanLiteral", "DateLiteral", "BufferLiteral"}
TermClasses == {"IRI", "Variable"} \cup LiteralClasses
\* expression instanceof ConcreteTerm
IsConcreteTerm(v) == v.cls \in TermClasses
isLiteral(t) == t.cls \in LiteralClasses
isIRI(t) == t.cls = "IRI"
isVariable(t) == t.cls = "Variable"

NumericLiteral(value, datatype) ==
  Literal("NumericLiteral", value, datatype, JSNull, Number(value))
\* fromInteger(value) builds the lexical form with `${value}`, whatever value is.
fromInteger(v) == NumericLiteral(JSToString(v), IRI(XSD("integer")))
fromFloat(v) == NumericLiteral(JSToString(v), IRI(XSD("float")))
StringLiteral(value, datatype, lang) ==
  Literal("StringLiteral", value, datatype, lang, JSString(value))
BooleanLiteral(value) ==
  Literal("BooleanLiteral", value, IRI(XSD("boolean")), JSNull,
          JSBool(value = "true" \/ value = "1"))
fromBoolean(b) == BooleanLiteral(JSToString(JSBool(b)))
\* A hex digit in lower case.
toLowerHex(c) ==
  LET i == IndexOf("ABCDEF", c, 1) IN IF i = 0 THEN c ELSE SubSeq("abcdef", i, i)
\* A moment: the instant it stands for, in milliseconds since the epoch, as
\* a JavaScript number (NaN for an invalid moment).  moment(x) of a number
\* keeps the integer part of a finite x.
moment(x) ==
  [cls |-> "moment",
   ms |-> IF x.d = 0 THEN NaN
          ELSE IF x.n >= 0 THEN Num(x.n \div x.d) ELSE Num(0 - ((0 - x.n) \div x.d))]
\* The days from the epoch to a day of the Gregorian calendar.
DaysFromCivil(year, month, day) ==
  LET y == IF month <= 2 THEN year - 1 ELSE year
      era == y \div 400
      yoe == y - era * 400
      doy == (153 * (IF month > 2 THEN month - 3 ELSE month + 9) + 2) \div 5 + day - 1
      doe == yoe * 365 + yoe \div 4 - yoe \div 100 + doy
  IN era * 146097 + doe - 719468
\* parseZone(value) on the texts YYYY-MM-DDThh:mm:ssZ, the UTC form of
\* xsd:dateTime; any other text is taken as no date (an invalid moment).
parseZone(value) ==
  LET field(i, j) == ParseDigits(SubSeq(value, i, j), 0)
      shaped == /\ Len(value) = 20
                /\ SubSeq(value, 5, 5) = "-" /\ SubSeq(value, 8, 8) = "-"
                /\ SubSeq(value, 11, 11) = "T" /\ SubSeq(value, 14, 14) = ":"
                /\ SubSeq(value, 17, 17) = ":" /\ SubSeq(value, 20, 20) = "Z"
                /\ field(1, 4) >= 0
                /\ field(6, 7) \in 1..12 /\ field(9, 10) \in 1..31
                /\ field(12, 13) \in 0..23 /\ field(15, 16) \in 0..59
                /\ field(18, 19) \in 0..59
  IN IF shaped
     THEN moment(Num((((DaysFromCivil(field(1, 4), field(6, 7), field(9, 10)) * 24
                        + field(12, 13)) * 60 + field(15, 16)) * 60 + field(18, 19)) * 1000))
     ELSE moment(NaN)
\* Buffer.from(value, format): the bytes the text encodes.  In hex, two
\* digits make a byte and decoding stops at the first pair that is no hex
\* number; in base64, four characters of the alphabet make three bytes, and
\* decoding stops at the first character outside the alphabet.
RECURSIVE HexBytes(_)
HexBytes(s) ==
  LET hi == IF Len(s) >= 1 THEN IndexOf("0123456789abcdef", toLowerHex(Head(s)), 1) ELSE 0
      lo == IF Len(s) >= 2 THEN IndexOf("0123456789abcdef", toLowerHex(SubSeq(s, 2, 2)), 1) ELSE 0
  IN IF hi = 0 \/ lo = 0 THEN << >>
     ELSE <<(hi - 1) * 16 + (lo - 1)>> \o HexBytes(SubSeq(s, 3, Len(s)))
RECURSIVE Base64Bytes(_, _, _)
Base64Bytes(s, acc, bits) ==
  LET i == IF s = "" THEN 0
           ELSE IndexOf("ABCDEFGHIJKLMNOPQRSTUVWXYZabcdefghijklmnopqrstuvwxyz0123456789+/",
                        Head(s), 1)
      all == acc * 64 + (i - 1)
      shift == IF bits + 6 = 8 THEN 1 ELSE IF bits + 6 = 10 THEN 4 ELSE 16
  IN IF i = 0 THEN << >>
     ELSE IF bits + 6 >= 8
          THEN <<all \div shift>> \o Base64Bytes(Tail(s), all % shift, bits + 6 - 8)
          ELSE Base64Bytes(Tail(s), all, bits + 6)
BufferFrom(value, format) ==
  [cls |-> "buffer",
   bytes |-> IF format = "hex" THEN HexBytes(value) ELSE Base64Bytes(value, 0, 0)]
\* new DateLiteral(value, datatype): the native value is parseZone(value).
DateLiteral(value, datatype) ==
  Literal("DateLiteral", value, datatype, JSNull, parseZone(value))
\* new BufferLiteral(value, format, datatype)
BufferLiteral(value, format, datatype) ==
  Literal("BufferLiteral", value, datatype, JSNull, BufferFrom(value, format))

getValue(t) == t.value
hasDatatype(l) == l.datatype # JSNull
hasLang(l) == l.lang # JSNull
toJS(t) ==
  CASE t.cls = "IRI" -> JSString(t.value)
    [] t.cls = "Variable" -> JSString(t.value)
    [] OTHER -> t.js
toRDF(t) ==
  CASE t.cls = "IRI" -> "<" \o t.value \o ">"
    [] t.cls = "Variable" -> "?" \o t.value
    [] OTHER ->
         IF hasLang(t) THEN "\"" \o t.value \o "\"" \o "@" \o JSToString(t.lang)
         ELSE IF hasDatatype(t)
              THEN "\"" \o t.value \o "\"" \o "^^" \o "<" \o t.datatype.value \o ">"
              ELSE "\"" \o t.value \o "\""

NumericDatatypes ==
  { XSD(n) : n \in {"integer", "byte", "short", "int", "unsignedByte",
      "unsignedShort", "unsignedInt", "number", "float", "decimal", "double",
      "long", "unsignedLong", "positiveInteger", "nonPositiveInteger",
      "negativeInteger", "nonNegativeInteger"} }
DateDatatypes ==
  { XSD(n) : n \in {"dateTime", "dateTimeStamp", "date", "time", "duration"} }
\* parseLiteral(value, datatype, lang): datatype and lang are a string or null.
parseLiteral(value, datatype, lang) ==
  LET datatypeIRI == IF datatype # JSNull THEN IRI(datatype.s) ELSE JSNull
      dt == IF datatype # JSNull THEN datatype.s ELSE ""
  IN CASE dt \in NumericDatatypes -> NumericLiteral(value, datatypeIRI)
       [] dt = XSD("boolean") -> BooleanLiteral(value)
       [] dt \in DateDatatypes -> DateLiteral(value, datatypeIRI)
       [] dt = XSD("hexBinary") -> BufferLiteral(value, "hex", datatypeIRI)
       [] dt = XSD("base64Binary") -> BufferLiteral(value, "base64", datatypeIRI)
       [] OTHER -> StringLiteral(value, datatypeIRI, lang)


(***************************************************************************)
(* Literal arithmetic (literals.ts).  The result of a Numeric or Boolean   *)
(* operation is a fresh literal built from the lexical form '0' whose      *)
(* native value is then overwritten.                                       *)
(***************************************************************************)
WithJS(lit, js) == [lit EXCEPT !.js = js]
NumericArith(this, other, op) ==
  LET lit == NumericLiteral("0", this.datatype)
      rhs == IF other.cls = "NumericLiteral" THEN toJS(other) ELSE JSToNumber(toJS(other))
      val == CASE op = "add" -> NumAdd(this.js, rhs)
               [] op = "minus" -> NumSub(this.js, rhs)
               [] op = "multiply" -> NumMul(this.js, rhs)
               [] op = "div" -> NumDiv(this.js, rhs)
  IN IF other.cls \in {"NumericLiteral", "BooleanLiteral"}
     THEN Ok(WithJS(lit, val))
     ELSE Throw("LiteralOperationError")
StringArith(this, other, op) ==
  IF op = "add" /\ other.cls = "StringLiteral"
  THEN Ok(StringLiteral(JSToString(JSPlus(toJS(this), toJS(other))), this.datatype, this.lang))
  ELSE Throw("LiteralOperationError")
\* Boolean methods that would take a Boolean in multiply and div too,
\* coerced to 0 or 1.
BooleanArithCoercing(this, other, op) ==
  LET lit == BooleanLiteral("0")
      me == JSToNumber(this.js)
      you == JSToNumber(other.js)
      one(x) == JSBool(JSStrictEq(x, Num(1)))
  IN CASE op = "add" /\ other.cls = "BooleanLiteral" ->
            Ok(WithJS(lit, JSBool(this.js.b /\ other.js.b)))
       [] op = "minus" /\ other.cls = "BooleanLiteral" ->
            Ok(WithJS(lit, JSBool(this.js.b \/ other.js.b)))
       [] op = "add" /\ other.cls = "NumericLiteral" -> Ok(WithJS(lit, one(NumAdd(me, you))))
       [] op = "minus" /\ other.cls = "NumericLiteral" -> Ok(WithJS(lit, one(NumSub(me, you))))
       [] op = "multiply" /\ other.cls \in {"NumericLiteral", "BooleanLiteral"} ->
            Ok(WithJS(lit, one(NumMul(me, you))))
       [] op = "div" /\ other.cls \in {"NumericLiteral", "BooleanLiteral"} ->
            Ok(WithJS(lit, one(NumDiv(me, you))))
       [] OTHER -> Throw("LiteralOperationError")
BooleanArith(this, other, op) ==
  LET lit == BooleanLiteral("0")
      me == JSToNumber(this.js)
      one(x) == JSBool(JSStrictEq(x, Num(1)))
  IN CASE op = "add" /\ other.cls = "BooleanLiteral" ->
            Ok(WithJS(lit, JSBool(this.js.b /\ other.js.b)))
       [] op = "minus" /\ other.cls = "BooleanLiteral" ->
            Ok(WithJS(lit, JSBool(this.js.b \/ other.js.b)))
       [] op = "add" /\ other.cls = "NumericLiteral" ->
            Ok(WithJS(lit, one(NumAdd(me, other.js))))
       [] op = "minus" /\ other.cls = "NumericLiteral" ->
            Ok(WithJS(lit, one(NumSub(me, other.js))))
       [] op = "multiply" /\ other.cls = "NumericLiteral" ->
            Ok(WithJS(lit, one(NumMul(me, other.js))))
       [] op = "div" /\ other.cls = "NumericLiteral" ->
            Ok(WithJS(lit, one(NumDiv(me, other.js))))
       [] OTHER -> Throw("LiteralOperationError")
\* The moment of a date after add(seconds, 'seconds') or
\* subtract(seconds, 'seconds'), which change the moment they are called on.
Shifted(m, seconds, op) ==
  [m EXCEPT !.ms = IF op = "add" THEN NumAdd(m.ms, NumMul(seconds, Num(1000)))
                   ELSE NumSub(m.ms, NumMul(seconds, Num(1000)))]
\* Whether a.<op>(b) goes through this.toJS().add / subtract: a date with a
\* Boolean, added or subtracted.
ShiftsInPlace(this, other, op) ==
  this.cls = "DateLiteral" /\ other.cls = "BooleanLiteral" /\ op \in {"add", "minus"}
\* The date methods: a fresh date of the same text whose moment is then
\* replaced.  With a date or a number the new moment is built from the
\* milliseconds; with a Boolean, add and minus shift this literal's own
\* moment and hand that same moment to the result.
DateArith(this, other, op) ==
  LET lit == DateLiteral(getValue(this), this.datatype)
      rhs == IF other.cls = "DateLiteral" THEN other.js.ms ELSE JSToNumber(other.js)
      val == CASE op = "add" -> NumAdd(this.js.ms, rhs)
               [] op = "minus" -> NumSub(this.js.ms, rhs)
               [] op = "multiply" -> NumMul(this.js.ms, rhs)
               [] op = "div" -> NumDiv(this.js.ms, rhs)
  IN IF other.cls \in {"DateLiteral", "NumericLiteral"} THEN Ok(WithJS(lit, moment(val)))
     ELSE IF other.cls = "BooleanLiteral"
          THEN IF ShiftsInPlace(this, other, op)
               THEN Ok(WithJS(lit, Shifted(this.js, JSToNumber(other.js), op)))
               ELSE Ok(WithJS(lit, moment(val)))
     ELSE Throw("LiteralOperationError")
\* a.add(b), a.minus(b), a.multiply(b), a.div(b) for literals a and b.
\* BufferLiteral defines none of the four methods, so calling one on a
\* buffer is a TypeError (a.add is not a function).
LiteralMethod(this, other, op) ==
  CASE this.cls = "NumericLiteral" -> NumericArith(this, other, op)
    [] this.cls = "StringLiteral" -> StringArith(this, other, op)
    [] this.cls = "BooleanLiteral" -> BooleanArith(this, other, op)
    [] this.cls = "DateLiteral" -> DateArith(this, other, op)
    [] this.cls = "BufferLiteral" -> Throw("TypeError")
\* The literal a itself once a.<op>(b) has returned or raised.
AfterMethod(this, other, op) ==
  IF ShiftsInPlace(this, other, op)
  THEN WithJS(this, Shifted(this.js, JSToNumber(other.js), op))
  ELSE this

\* equals(other) of the term classes.  other.isLiteral() / other.isIRI() is a
\* method call, a TypeError when other is null, undefined or no term.
TermEquals(this, other) ==
  IF ~IsConcreteTerm(other) THEN Throw("TypeError")
  ELSE CASE this.cls = "IRI" -> Ok(isIRI(other) /\ this.value = other.value)
         [] this.cls = "Variable" -> Ok(isVariable(other) /\ this.value = other.value)
         [] this.cls = "NumericLiteral" ->
              Ok(other.cls = "NumericLiteral" /\ JSStrictEq(this.js, other.js))
         [] this.cls = "StringLiteral" ->
              Ok(other.cls = "StringLiteral" /\ this.value = other.value)
         [] this.cls = "BooleanLiteral" ->
              Ok(other.cls = "BooleanLiteral" /\ this.js = other.js)
         \* a date equals only a String literal whose text is the same instant
         [] this.cls = "DateLiteral" ->
              Ok(/\ other.cls = "StringLiteral"
                 /\ IsFinite(this.js.ms)
                 /\ this.js.ms = parseZone(other.js.s).ms)
         [] this.cls = "BufferLiteral" ->
              Ok(other.cls = "BufferLiteral" /\ this.js = other.js)

(***************************************************************************)
(* The operation table (sparql-operations.ts).                             *)
(***************************************************************************)
\* The names the table defines.
OperationNames ==
  {"+", "-", "*", "/", "=", "!=", "<", "<=", ">", ">=", "!", "&&", "||",
   "bound", "sameterm", "in", "notin", "isiri", "isblank", "isliteral",
   "isnumeric", "str", "lang", "datatype", "iri", "strdt", "strlang", "uuid",
   "struuid", "strlen", "substr", "ucase", "lcase", "strstarts", "strends",
   "contains", "strbefore", "strafter", "encode_for_uri", "concat",
   "langmatches", "regex", "abs", "round", "ceil", "floor", "now", "year",
   "month", "day", "hours", "minutes", "seconds", "tz", "md5", "sha1",
   "sha256", "sha384", "sha512"}
\* The i-th actual parameter of a call: undefined when it is not passed.
Arg(args, i) == IF i <= Len(args) THEN args[i] ELSE JSUndefined

\* The four arithmetic entries: a.isLiteral() && b.isLiteral() ? a.<method>(b)
\* : a StringLiteral of the host result of the operator on a.toJS(), b.toJS().
Arithmetic(a, b, method, host) ==
  LET fallback ==
        IF ~IsConcreteTerm(b) THEN Throw("TypeError")
        ELSE LET x == toJS(a)
                 y == toJS(b)
                 r == CASE host = "+" -> JSPlus(x, y)
                        [] host = "-" -> NumSub(JSToNumber(x), JSToNumber(y))
                        [] host = "*" -> NumMul(JSToNumber(x), JSToNumber(y))
                        [] host = "/" -> NumDiv(JSToNumber(x), JSToNumber(y))
             IN Ok(StringLiteral(JSToString(r), JSNull, JSNull))
  IN IF ~IsConcreteTerm(a) THEN Throw("TypeError")
     ELSE IF ~isLiteral(a) THEN fallback
     ELSE IF ~IsConcreteTerm(b) THEN Throw("TypeError")
     ELSE IF ~isLiteral(b) THEN fallback
     ELSE LiteralMethod(a, b, method)
Methods == {"add", "minus", "multiply", "div"}
ArithmeticOperators == {"+", "-", "*", "/"}
\* The method the arithmetic entry of an operator calls on two literals.
MethodOf(operator) ==
  CASE operator = "+" -> "add" [] operator = "-" -> "minus"
    [] operator = "*" -> "multiply" [] operator = "/" -> "multiply"
OpAdd(a, b) == Arithmetic(a, b, "add", "+")
\* A '-' entry that would call add, as the '/' entry calls multiply.
OpMinusAsAdd(a, b) == Arithmetic(a, b, "add", "-")
OpMinus(a, b) == Arithmetic(a, b, "minus", "-")
OpMultiply(a, b) == Arithmetic(a, b, "multiply", "*")
\* The '/' entry calls multiply on two literals.
OpDivide(a, b) == Arithmetic(a, b, "multiply", "/")
OpEquals(a, b) ==
  IF ~IsConcreteTerm(a) THEN Throw("TypeError")
  ELSE LET e == TermEquals(a, b)
       IN IF IsThrow(e) THEN e ELSE Ok(fromBoolean(e.val))
OpNot(a) ==
  IF a.cls = "BooleanLiteral" THEN Ok(fromBoolean(~a.js.b)) ELSE Ok(BooleanLiteral("false"))
\* bound: !isNull(a)
OpBound(a) == Ok(fromBoolean(a # JSNull))

\* String.prototype.toLowerCase, on the ASCII letters.
RECURSIVE toLowerCase(_)
toLowerCase(s) ==
  IF s = "" THEN ""
  ELSE LET i == IndexOf("ABCDEFGHIJKLMNOPQRSTUVWXYZ", Head(s), 1)
           c == IF i = 0 THEN Head(s) ELSE SubSeq("abcdefghijklmnopqrstuvwxyz", i, i)
       IN c \o toLowerCase(Tail(s))
\* String.prototype.substr(start, length) for integers start >= 0: the
\* length characters that follow the first start characters.
substr(s, start, length) ==
  LET from == IF start > Len(s) THEN Len(s) ELSE start
      upto == IF from + length > Len(s) THEN Len(s) ELSE from + length
  IN IF length <= 0 THEN "" ELSE SubSeq(s, from + 1, upto)
\* langmatches: getValue() is called on both arguments, a TypeError on a
\* value that is no term.  The prefix test reads the tag from its second
\* character on: tag.substr(1, range.length + 1).
OpLangmatches(langTag, langRange) ==
  IF ~IsConcreteTerm(langTag) \/ ~IsConcreteTerm(langRange) THEN Throw("TypeError")
  ELSE LET tag == toLowerCase(getValue(langTag))
           range == toLowerCase(getValue(langRange))
           test == \/ tag = range
                   \/ range = "*"
                   \/ substr(tag, 1, Len(range) + 1) = range \o "-"
       IN Ok(fromBoolean(test))
\* String.prototype.substring(start, end) with start and end JavaScript
\* numbers: each is truncated to an integer and brought into 0..length (NaN
\* counts as 0), and the two are swapped when start exceeds end.
substring(s, start, end) ==
  LET clamp(x) == IF x.d = 0 THEN (IF x.n = 1 THEN Len(s) ELSE 0)
                  ELSE IF x.n <= 0 THEN 0
                  ELSE IF x.n \div x.d > Len(s) THEN Len(s) ELSE x.n \div x.d
      a == clamp(start)
      b == IF end = JSUndefined THEN Len(s) ELSE clamp(end)
  IN IF a <= b THEN SubSeq(s, a + 1, b) ELSE SubSeq(s, b + 1, a)
\* A substr entry without the check of the index: an index below 1 is
\* brought to the start of the string.
OpSubstrClamped(str, index, length) ==
  IF str.cls = "StringLiteral" /\ index.cls = "NumericLiteral"
  THEN LET value == substring(getValue(str), NumSub(toJS(index), Num(1)), JSUndefined)
           cut == IF length.cls = "NumericLiteral"
                  THEN substring(value, Num(0), toJS(length)) ELSE value
       IN Ok(StringLiteral(cut, str.datatype, str.lang))
  ELSE Ok(str)
\* substr: an error when the index is below 1; the length is applied only
\* when it is a Numeric literal; anything but a String literal with a Numeric
\* index is returned as it is.
OpSubstr(str, index, length) ==
  IF str.cls = "StringLiteral" /\ index.cls = "NumericLiteral"
  THEN IF \/ (toJS(index).d > 0 /\ toJS(index).n < toJS(index).d)
          \/ (toJS(index).d = 0 /\ toJS(index).n = -1)
       THEN Throw("Error")
       ELSE LET value == substring(getValue(str), NumSub(toJS(index), Num(1)), JSUndefined)
                cut == IF length # JSUndefined /\ length.cls = "NumericLiteral"
                       THEN substring(value, Num(0), toJS(length)) ELSE value
            IN Ok(StringLiteral(cut, str.datatype, str.lang))
  ELSE Ok(str)
(***************************************************************************)
(* compareTo of the term classes, and the '!=' entry of the table.         *)
(***************************************************************************)
\* The printable ASCII characters in the order of their code units (but the
\* backquote, which no string of the model holds).
Alphabet ==
  " !\"#$%&'()*+,-./0123456789:;<=>?@ABCDEFGHIJKLMNOPQRSTUVWXYZ[\\]^_abcdefghijklmnopqrstuvwxyz{|}~"
Ord(c) ==
  IF \E i \in 1..Len(Alphabet) : SubSeq(Alphabet, i, i) = c
  THEN CHOOSE i \in 1..Len(Alphabet) : SubSeq(Alphabet, i, i) = c
  ELSE 0
\* a < b on strings: by the code units at the first place where they
\* differ, a proper prefix first.
StringLess(a, b) ==
  LET differ == { i \in 1..Len(a) : i <= Len(b) /\ SubSeq(a, i, i) # SubSeq(b, i, i) }
  IN IF differ = {} THEN Len(a) < Len(b)
     ELSE The({ Ord(SubSeq(a, i, i)) < Ord(SubSeq(b, i, i))
                : i \in { j \in differ : \A k \in differ : j <= k } })
\* x < y on numbers: false when either is NaN.
NumLess(x, y) ==
  IF IsFinite(x) /\ IsFinite(y) THEN x.n * y.d < y.n * x.d
  ELSE IF x.n = 0 \/ y.n = 0 THEN IsFinite(x) /\ IsFinite(y)
  ELSE IF IsFinite(x) THEN y.n = 1
  ELSE IF IsFinite(y) THEN x.n = -1
  ELSE x.n < y.n
\* x < y on the native values the literals hold.
JSLess(x, y) ==
  IF x.cls = "string" /\ y.cls = "string" THEN StringLess(x.s, y.s)
  ELSE NumLess(JSToNumber(x), JSToNumber(y))
\* The three-way answer of the if / else if / return 0 chains.
ThreeWay(less, greater) == IF less THEN -1 ELSE IF greater THEN 1 ELSE 0
\* Buffer.compare: byte by byte, a proper prefix first.
RECURSIVE BufferCompare(_, _)
BufferCompare(a, b) ==
  IF a = << >> /\ b = << >> THEN 0
  ELSE IF a = << >> THEN -1
  ELSE IF b = << >> THEN 1
  ELSE IF Head(a) # Head(b) THEN ThreeWay(Head(a) < Head(b), TRUE)
  ELSE BufferCompare(Tail(a), Tail(b))
\* Term.compareTo(other): by the toRDF texts.
TermCompareTo(this, other) ==
  ThreeWay(StringLess(toRDF(this), toRDF(other)), StringLess(toRDF(other), toRDF(this)))
\* compareTo(other) of the term classes: within the class by the value, and
\* super.compareTo otherwise.  A date is compared to a String literal only:
\* isBefore and isAfter take the string's text as a date.
compareTo(this, other) ==
  IF ~IsConcreteTerm(other) THEN Throw("TypeError")
  ELSE CASE this.cls \in {"IRI", "Variable"} /\ other.cls = this.cls ->
              Ok(ThreeWay(StringLess(this.value, other.value),
                          StringLess(other.value, this.value)))
         [] this.cls = "StringLiteral" /\ other.cls = "StringLiteral" ->
              Ok(ThreeWay(StringLess(this.value, other.value),
                          StringLess(other.value, this.value)))
         [] this.cls \in {"NumericLiteral", "BooleanLiteral"} /\ other.cls = this.cls ->
              Ok(ThreeWay(JSLess(this.js, other.js), JSLess(other.js, this.js)))
         [] this.cls = "DateLiteral" /\ other.cls = "StringLiteral" ->
              Ok(ThreeWay(NumLess(this.js.ms, parseZone(other.js.s).ms),
                          NumLess(parseZone(other.js.s).ms, this.js.ms)))
         [] this.cls = "BufferLiteral" /\ other.cls = "BufferLiteral" ->
              Ok(BufferCompare(this.js.bytes, other.js.bytes))
         [] OTHER -> Ok(TermCompareTo(this, other))
\* '!=': BooleanLiteral.fromBoolean(!a.equals(b))
OpNotEquals(a, b) ==
  IF ~IsConcreteTerm(a) THEN Throw("TypeError")
  ELSE LET e == TermEquals(a, b)
       IN IF IsThrow(e) THEN e ELSE Ok(fromBoolean(~e.val))
\* SPARQL_OPERATIONS[operator](...args)
ApplyOperation(operator, args) ==
  CASE operator = "+" -> OpAdd(Arg(args, 1), Arg(args, 2))
    [] operator = "-" -> OpMinus(Arg(args, 1), Arg(args, 2))
    [] operator = "*" -> OpMultiply(Arg(args, 1), Arg(args, 2))
    [] operator = "/" -> OpDivide(Arg(args, 1), Arg(args, 2))
    [] operator = "=" -> OpEquals(Arg(args, 1), Arg(args, 2))
    [] operator = "!=" -> OpNotEquals(Arg(args, 1), Arg(args, 2))
    [] operator = "!" -> OpNot(Arg(args, 1))
    [] operator = "bound" -> OpBound(Arg(args, 1))
    [] operator = "substr" -> OpSubstr(Arg(args, 1), Arg(args, 2), Arg(args, 3))
    [] operator = "langmatches" -> OpLangmatches(Arg(args, 1), Arg(args, 2))
    \* a name found on Object.prototype: Object.prototype.toString called
    \* with no receiver returns the string "[object Undefined]"
    [] operator = "toString" -> Ok(JSString("[object Undefined]"))


\* `name in table` and table[name] also find the names every object inherits
\* from Object.prototype.
ObjectPrototypeNames ==
  {"constructor", "toString", "toLocaleString", "valueOf", "hasOwnProperty",
   "isPrototypeOf", "propertyIsEnumerable"}
NameIn(name, ownNames) == name \in ownNames \cup ObjectPrototypeNames

(***************************************************************************)
(* JavaScript Map: the entries in insertion order.  Keys that are objects  *)
(* are found by identity.                                                  *)
(***************************************************************************)
\* Whether a and b are the same value for a Map: strings by content; of
\* Variable objects only the registry's object of a name is ever shared
\* between a map and its readers, so an object built outside the registry is
\* no key of a map it was not put in.
SameKey(a, b) ==
  /\ a = b
  /\ (a.cls = "Variable" => a.ref = "interned")
EmptyMap == << >>
MapHas(m, k) == \E i \in 1..Len(m) : SameKey(m[i].key, k)
MapIndex(m, k) == CHOOSE i \in 1..Len(m) : SameKey(m[i].key, k)
MapGet(m, k) == IF MapHas(m, k) THEN m[MapIndex(m, k)].val ELSE JSUndefined
MapSet(m, k, v) ==
  IF MapHas(m, k) THEN [m EXCEPT ![MapIndex(m, k)].val = v]
  ELSE Append(m, [key |-> k, val |-> v])

(***************************************************************************)
(* The variable registry (rdf-terms.ts, Variable.allocate).                *)
(***************************************************************************)
startsWith(s, prefix) ==
  Len(s) >= Len(prefix) /\ SubSeq(s, 1, Len(prefix)) = prefix
\* Variable.allocate(value): value.startsWith is called first, which is a
\* TypeError unless value is a string.  The object returned for a name is
\* the registry's, whether it was there or is created by this call.
allocate(value) ==
  IF value.cls # "string" THEN Throw("TypeError")
  ELSE LET name == IF startsWith(value.s, "?") THEN SubSeq(value.s, 2, Len(value.s))
                   ELSE value.s
       IN Ok(NewVariable(name, "interned"))

(***************************************************************************)
(* Bindings and BindingBase (bindings.ts).                                 *)
(***************************************************************************)
BindingBase(content, properties) ==
  [cls |-> "Bindings", content |-> content, properties |-> properties]
EmptyBindings == BindingBase(EmptyMap, EmptyMap)
has(b, variable) == MapHas(b.content, variable)
get(b, variable) == IF MapHas(b.content, variable) THEN MapGet(b.content, variable) ELSE JSNull
set(b, variable, value) == [b EXCEPT !.content = MapSet(b.content, variable, value)]
variables(b) == [i \in 1..Len(b.content) |-> b.content[i].key]
hasProperty(b, key) == MapHas(b.properties, JSString(key))
getProperty(b, key) == MapGet(b.properties, JSString(key))
setProperty(b, key, value) ==
  [b EXCEPT !.properties = MapSet(b.properties, JSString(key), value)]
\* BindingBase.forEach(callback): for each entry, in order, the callback is
\* called with (Variable.allocate(variable), value), variable being the
\* Variable object that is the entry's key.  The value here is the sequence
\* of the callback's arguments, each a completion: the first that throws
\* ends the iteration.
forEachCalls(b) ==
  Tuple([i \in 1..Len(b.content) |->
     LET v == allocate(b.content[i].key)
     IN IF IsThrow(v) THEN v
        ELSE Ok([variable |-> v.val, value |-> b.content[i].val])])
\* The index of the first throwing completion of a sequence, 0 if none.
FirstThrow(cs) ==
  IF \E i \in 1..Len(cs) : IsThrow(cs[i])
  THEN CHOOSE i \in 1..Len(cs) : IsThrow(cs[i]) /\ \A j \in 1..(i - 1) : IsOk(cs[j])
  ELSE 0


RECURSIVE SetAll(_, _)
SetAll(b, pairs) ==
  IF pairs = << >> THEN b
  ELSE The({ SetAll(bb, Tail(pairs))
             : bb \in {set(b, Head(pairs).variable, Head(pairs).value)} })
\* variables.indexOf(variable) > -1
InVariables(vs, variable) == \E i \in 1..Len(vs) : SameKey(vs[i], variable)
IndexOfPredicate(vs) == [cls |-> "closure", kind |-> "indexOf", variables |-> vs]
CallPredicate(predicate, variable, value) ==
  CASE predicate.kind = "indexOf" -> InVariables(predicate.variables, variable)
    \* difference: (!other.has(variable)) || (!value.equals(other.get(variable)))
    [] predicate.kind = "difference" ->
         \/ ~has(predicate.other, variable)
         \/ ~TermEquals(value, get(predicate.other, variable)).val
    \* isSubset: other.has(v) && other.get(v).equals(this.get(v))
    [] predicate.kind = "isSubset" ->
         /\ has(predicate.other, variable)
         /\ TermEquals(get(predicate.other, variable), get(predicate.this, variable)).val
    \* a predicate of the caller's: the variable is the given one
    [] predicate.kind = "is" -> SameKey(predicate.variable, variable)
\* filter(predicate), through map: a new BindingBase that holds the
\* mappings for which the predicate holds; it has no properties.
\* The predicate is a closure: the one GROUP BY passes is
\* variable => variables.indexOf(variable) > -1, with variables captured.
filter(b, predicate) ==
  The({ IF FirstThrow(calls) # 0 THEN calls[FirstThrow(calls)]
        ELSE Ok(SetAll(EmptyBindings,
                  SelectSeq([i \in 1..Len(calls) |-> calls[i].val],
                            LAMBDA c : CallPredicate(predicate, c.variable, c.value))))
        : calls \in {forEachCalls(b)} })
\* clone(): an empty BindingBase that gets the properties, then the mappings.
clone(b) ==
  The({ IF FirstThrow(calls) # 0 THEN calls[FirstThrow(calls)]
        ELSE Ok(SetAll(BindingBase(EmptyMap, b.properties),
                       [i \in 1..Len(calls) |-> calls[i].val]))
        : calls \in {forEachCalls(b)} })

\* The callbacks a forEach runs before it ends: those of the mappings before
\* the first for which Variable.allocate throws.
Visited(calls) ==
  Tuple([i \in 1..(IF FirstThrow(calls) = 0 THEN Len(calls) ELSE FirstThrow(calls) - 1)
           |-> calls[i].val])
\* A function of the caller's, called with (variable, value): what it
\* returns.
CallReturn(f, variable, value) ==
  CASE f.kind = "null" -> JSNull
    [] f.kind = "constant" -> f.to
    [] f.kind = "variable" -> variable
    [] f.kind = "value" -> value
\* The mapper given to map, called with (variable, value): the pair
\* [newVar, newValue] it returns.  mapVariables and mapValues wrap the
\* caller's function, which gives one member of the pair.
CallMapper(mapper, variable, value) ==
  CASE mapper.kind = "pair" ->
         [variable |-> CallReturn(mapper.first, variable, value),
          value |-> CallReturn(mapper.second, variable, value)]
    [] mapper.kind = "mapVariables" ->
         [variable |-> CallReturn(mapper.mapper, variable, value), value |-> value]
    [] mapper.kind = "mapValues" ->
         [variable |-> variable, value |-> CallReturn(mapper.mapper, variable, value)]
\* map(mapper): a new BindingBase that gets the pairs the mapper returns,
\* but those with a null or undefined member.
map(b, mapper) ==
  The({ IF FirstThrow(calls) # 0 THEN calls[FirstThrow(calls)]
        ELSE Ok(SetAll(EmptyBindings,
                  SelectSeq([i \in 1..Len(calls) |->
                               CallMapper(mapper, calls[i].val.variable, calls[i].val.value)],
                            LAMBDA c : c.variable # JSNull /\ c.value # JSNull)))
        : calls \in {forEachCalls(b)} })
\* mapVariables(mapper) and mapValues(mapper): map with a mapper that keeps
\* the other member of the pair.
mapVariables(b, mapper) == map(b, [cls |-> "closure", kind |-> "mapVariables", mapper |-> mapper])
mapValues(b, mapper) == map(b, [cls |-> "closure", kind |-> "mapValues", mapper |-> mapper])
\* extendMany(values): the clone, with every given pair set.
extendMany(b, values) ==
  The({ IF IsThrow(cloned) THEN cloned ELSE Ok(SetAll(cloned.val, values))
        : cloned \in {clone(b)} })
\* union(other): the clone, with every mapping of other set.
union(b, other) ==
  The({ IF IsThrow(cloned) THEN cloned
        ELSE IF FirstThrow(calls) # 0 THEN calls[FirstThrow(calls)]
        ELSE Ok(SetAll(cloned.val, [i \in 1..Len(calls) |-> calls[i].val]))
        : cloned \in {clone(b)}, calls \in {forEachCalls(other)} })
\* intersection(other): a new BindingBase with the mappings of this whose
\* variable other has and whose value is the very object other holds for it
\* (other.get(variable) === value).  Terms are objects: sameObjects tells
\* whether the equal terms of the two bindings are the same objects (other
\* was built from this) or objects of their own (both were parsed).
intersection(b, other, sameObjects) ==
  The({ IF FirstThrow(calls) # 0 THEN calls[FirstThrow(calls)]
        ELSE Ok(SetAll(EmptyBindings,
                  SelectSeq([i \in 1..Len(calls) |-> calls[i].val],
                            LAMBDA c : /\ has(other, c.variable)
                                       /\ get(other, c.variable) = c.value
                                       /\ sameObjects)))
        : calls \in {forEachCalls(b)} })
\* difference(other): filter with the predicate on other.
difference(b, other) == filter(b, [cls |-> "closure", kind |-> "difference", other |-> other])
\* reduce(reducer, start), for the reducer of toObject:
\* acc[variable.toRDF()] = value.toRDF()
toObject(b) ==
  The({ IF FirstThrow(calls) # 0 THEN calls[FirstThrow(calls)]
        ELSE Ok([cls |-> "object",
                 own |-> [i \in 1..Len(calls) |->
                            [key |-> toRDF(calls[i].val.variable),
                             val |-> toRDF(calls[i].val.value)]]])
        : calls \in {forEachCalls(b)} })
\* some(predicate) and every(predicate): forEach, with res || and res &&.
some(b, predicate) ==
  The({ IF FirstThrow(calls) # 0 THEN calls[FirstThrow(calls)]
        ELSE Ok(JSBool(\E i \in 1..Len(calls) :
                  CallPredicate(predicate, calls[i].val.variable, calls[i].val.value)))
        : calls \in {forEachCalls(b)} })
every(b, predicate) ==
  The({ IF FirstThrow(calls) # 0 THEN calls[FirstThrow(calls)]
        ELSE Ok(JSBool(\A i \in 1..Len(calls) :
                  CallPredicate(predicate, calls[i].val.variable, calls[i].val.value)))
        : calls \in {forEachCalls(b)} })
\* isSubset(other): every, with the predicate on other.
isSubset(b, other) ==
  every(b, [cls |-> "closure", kind |-> "isSubset", other |-> other, this |-> b])
(***************************************************************************)
(* RDF term parsing (rdf-model.ts, parseTerm; N3 Util for literals).       *)
(***************************************************************************)
RECURSIVE LastIndexOf(_, _, _)
LastIndexOf(s, c, i) ==
  IF i = 0 THEN 0
  ELSE IF SubSeq(s, i, i) = c THEN i ELSE LastIndexOf(s, c, i - 1)
Contains(s, c) == IndexOf(s, c, 1) # 0
cleanIRI(iri) ==
  IF startsWith(iri, "<") /\ Len(iri) >= 1 /\ SubSeq(iri, Len(iri), Len(iri)) = ">"
  THEN SubSeq(iri, 2, Len(iri) - 1)
  ELSE iri
\* Util.getLiteralValue, getLiteralLanguage and getLiteralType on a string
\* that starts with a quote: the value runs to the last quote; what follows
\* it is nothing, ^^type or @language.  Without a language tag the language
\* is the empty string, without a type the type is xsd:string (rdf:langString
\* with a language tag).
LiteralParts(term) ==
  LET q == LastIndexOf(term, "\"", Len(term))
      rest == SubSeq(term, q + 1, Len(term))
      value == SubSeq(term, 2, q - 1)
  IN IF q <= 1 THEN Throw("Error")
     ELSE IF rest = ""
          THEN Ok([value |-> value, type |-> XSD("string"), lang |-> ""])
     ELSE IF startsWith(rest, "^^") /\ Len(rest) > 2
          THEN Ok([value |-> value, type |-> SubSeq(rest, 3, Len(rest)), lang |-> ""])
     ELSE IF startsWith(rest, "@") /\ Len(rest) > 1 /\ ~Contains(Tail(rest), "@")
          THEN Ok([value |-> value,
                   type |-> "http://www.w3.org/1999/02/22-rdf-syntax-ns#langString",
                   lang |-> Tail(rest)])
     ELSE Throw("Error")
\* Util.isIRI: any string that starts neither with a quote nor with '_'.
UtilIsIRI(term) == term = "" \/ ~(startsWith(term, "\"") \/ startsWith(term, "_"))
\* parseTerm(term) for a string term.  A variable is built with new
\* Variable(term): outside the registry, its value the whole text.
parseTerm(term) ==
  IF startsWith(term, "?") THEN Ok(NewVariable(term, "fresh"))
  ELSE IF startsWith(term, "\"")
       THEN The({ IF IsThrow(p) THEN p
                  ELSE Ok(parseLiteral(p.val.value, JSString(cleanIRI(p.val.type)),
                                       JSString(p.val.lang)))
                  : p \in {LiteralParts(term)} })
  ELSE IF startsWith(term, "<") \/ startsWith(term, "http") \/ UtilIsIRI(term)
       THEN Ok(IRI(term))
  ELSE Throw("SyntaxError")

(***************************************************************************)
(* The aggregation table (sparql-aggregates.ts).                           *)
(***************************************************************************)
AggregationNames == {"count", "sum", "avg", "min", "max", "group_concat", "sample"}
\* rows.length: of a string or an array its length, of any other object
\* undefined; null and undefined have no properties.
LengthOf(rows) ==
  CASE rows.cls = "string" -> Ok(Num(Len(rows.s)))
    [] rows.cls = "array" -> Ok(Num(Len(rows.items)))
    [] rows.cls \in {"null", "undefined"} -> Throw("TypeError")
    [] OTHER -> Ok(JSUndefined)
count(rows) ==
  LET n == LengthOf(rows)
  IN IF IsThrow(n) THEN n ELSE Ok(fromInteger(n.val))
RECURSIVE SumJS(_, _)
SumJS(prev, terms) ==
  IF terms = << >> THEN prev
  ELSE The({ SumJS(acc, Tail(terms)) : acc \in {JSPlus(prev, toJS(Head(terms)))} })
\* rows.filter(...).reduce(...): only an array has filter.
sum(rows) ==
  IF rows.cls # "array" THEN Throw("TypeError")
  ELSE Ok(fromInteger(SumJS(Num(0),
            SelectSeq(rows.items, LAMBDA term : term.cls = "NumericLiteral"))))
\* An avg that would divide by the length of the array.
avgOverLength(rows) ==
  IF rows.cls # "array" THEN Throw("TypeError")
  ELSE LET numerics == SelectSeq(rows.items, LAMBDA term : term.cls = "NumericLiteral")
       IN Ok(fromFloat(NumDiv(SumJS(Num(0), numerics), Num(Len(rows.items)))))
\* avg: the sum of the native values of the Numeric entries over their
\* number, as a float; 0 / 0 when there is none.
avg(rows) ==
  IF rows.cls # "array" THEN Throw("TypeError")
  ELSE LET numerics == SelectSeq(rows.items, LAMBDA term : term.cls = "NumericLiteral")
       IN Ok(fromFloat(NumDiv(SumJS(Num(0), numerics), Num(Len(numerics)))))
\* SPARQL_AGGREGATES[aggregation](a, b, c)
ApplyAggregation(aggregation, a, b, c) ==
  CASE aggregation = "count" -> count(a)
    [] aggregation = "sum" -> sum(a)
    [] aggregation = "avg" -> avg(a)
    [] aggregation = "toString" -> Ok(JSString("[object Undefined]"))


(***************************************************************************)
(* Algebra expression nodes (the input of the compiler) and the custom     *)
(* functions of the model's registry.                                      *)
(***************************************************************************)
OperationNode(operator, args) ==
  [cls |-> "object", type |-> "operation", operator |-> operator, args |-> args]
AggregateNode(aggregation, expression, separator) ==
  [cls |-> "object", type |-> "aggregate", aggregation |-> aggregation,
   expression |-> expression, separator |-> separator]
FunctionCallNode(function, args) ==
  [cls |-> "object", type |-> "functionCall", function |-> function, args |-> args]
\* expression.type: undefined on a value that has no such property.
TypeOf(expression) ==
  IF expression.cls = "object" THEN expression.type ELSE "undefined"

\* The registry the caller supplies: an object whose own names are these.
Registry(names) == [cls |-> "object", own |-> names]
\* customFunctions && customFunctions[name], as a truth value.
LookupCustom(customFunctions, name) ==
  /\ customFunctions # JSUndefined
  /\ NameIn(name, customFunctions.own)
\* The custom functions of the model: list returns the array of its
\* arguments, fail always throws, numeric returns its first argument when it
\* is a Numeric literal and throws otherwise.
CallCustom(function, args) ==
  CASE function = "list" -> Ok(JSArray(args))
    [] function = "fail" -> Throw("Error")
    [] function = "numeric" ->
         IF Arg(args, 1).cls = "NumericLiteral" THEN Ok(Arg(args, 1)) ELSE Throw("Error")
    [] function = "toString" -> Ok(JSString("[object Undefined]"))

(***************************************************************************)
(* The expression compiler (sparql-expression.ts).  A compiled expression  *)
(* is a closure: a record of the code it runs and the values it captured.  *)
(***************************************************************************)
\* The completions of a sequence, as one completion: the first throw, or the
\* sequence of the values.
Sequenced(cs) ==
  The({ IF FirstThrow(v) # 0 THEN v[FirstThrow(v)]
        ELSE Ok(Tuple([i \in 1..Len(v) |-> v[i].val]))
        : v \in {Tuple(cs)} })
\* bindArgument(variable)(bindings)
bindArgument(variable, bindings) ==
  IF has(bindings, variable) THEN get(bindings, variable) ELSE JSNull
\* The argument of an operation node, before it is compiled: a string is
\* parsed to a term, an array to an array of terms, anything else kept.
OperationArgument(arg) ==
  CASE arg.cls = "string" -> parseTerm(arg.s)
    [] arg.cls = "array" ->
         The({ IF IsThrow(ts) THEN ts ELSE Ok(JSArray(ts.val))
               : ts \in {Sequenced([i \in 1..Len(arg.items) |->
                                      parseTerm(arg.items[i].s)])} })
    [] OTHER -> Ok(arg)

RECURSIVE _compileExpression(_, _)
_compileExpression(expression, customFunctions) ==
  IF IsConcreteTerm(expression)
  THEN IF isVariable(expression)
       THEN Ok([cls |-> "closure", kind |-> "bindArgument", variable |-> expression])
       ELSE Ok([cls |-> "closure", kind |-> "constant", value |-> expression])
  ELSE IF expression.cls = "array"
  THEN Ok([cls |-> "closure", kind |-> "constant", value |-> expression])
  ELSE IF expression.cls \in {"null", "undefined"} THEN Throw("TypeError")
  ELSE IF TypeOf(expression) = "operation"
  THEN The({ IF IsThrow(args) THEN args
             ELSE IF ~NameIn(expression.operator, OperationNames) THEN Throw("Error")
             ELSE Ok([cls |-> "closure", kind |-> "operation",
                      operator |-> expression.operator, args |-> args.val])
             : args \in {Sequenced([i \in 1..Len(expression.args) |->
                 The({ IF IsThrow(argument) THEN argument
                       ELSE _compileExpression(argument.val, customFunctions)
                       : argument \in {OperationArgument(expression.args[i])} })])} })
  ELSE IF TypeOf(expression) = "aggregate"
  THEN IF ~NameIn(expression.aggregation, AggregationNames) THEN Throw("Error")
       ELSE Ok([cls |-> "closure", kind |-> "aggregate",
                aggregation |-> expression.aggregation,
                expression |-> expression.expression,
                separator |-> expression.separator])
  ELSE IF TypeOf(expression) = "functionCall"
  THEN IF ~LookupCustom(customFunctions, expression.function) THEN Throw("Error")
       ELSE Ok([cls |-> "closure", kind |-> "functionCall",
                function |-> expression.function, args |-> expression.args,
                customFunctions |-> customFunctions])
  ELSE Throw("Error")

\* The body without the try block around it.
Uncaught(body) == body
\* try { body } catch (e) { return null }
CatchToNull(body) == The({ IF IsThrow(c) THEN Ok(JSNull) ELSE c : c \in {body} })
\* A closure that would answer null where the operator function throws.
CallOperationSilenced(operator, args) ==
  The({ IF IsThrow(a) THEN a
        ELSE IF IsThrow(ApplyOperation(operator, a.val)) THEN Ok(JSNull)
        ELSE ApplyOperation(operator, a.val)
        : a \in {args} })
\* operation(...args.map(arg => arg(bindings))): what an argument throws, or
\* the operator function throws, leaves the closure as it is.
CallOperation(operator, args) ==
  The({ IF IsThrow(a) THEN a ELSE ApplyOperation(operator, a.val) : a \in {args} })
\* aggregation(aggExpression.expression, bindings.getProperty('__aggregate'),
\* aggExpression.separator)
CallAggregation(aggregation, expression, payload, separator) ==
  ApplyAggregation(aggregation, expression, payload, separator)

\* What a call does.  The terms a compiled expression holds are built once,
\* by the constructor, and handed out again at every call; a date among
\* them, or among the terms of the bindings, is shifted in place when it is
\* added to or subtracted from a Boolean, and the result of that operation
\* holds the same moment.  Run gives the completion of closure(bindings),
\* the compiled expression and the bindings as the call leaves them, and the
\* owner of the moment the result holds: a term of the compiled expression
\* (by the path of argument positions that leads to it), a variable of the
\* bindings, or none for a result with a moment of its own.
NoOwner == [kind |-> "none"]
Ran(result, closure, bindings, owner) ==
  [result |-> result, closure |-> closure, bindings |-> bindings, owner |-> owner]
\* The compiled expression after the term at the path has been shifted.
RECURSIVE ShiftTerm(_, _, _, _)
ShiftTerm(closure, path, other, op) ==
  IF path = << >> THEN [closure EXCEPT !.value = AfterMethod(closure.value, other, op)]
  ELSE [closure EXCEPT !.args[Head(path)] =
          ShiftTerm(closure.args[Head(path)], Tail(path), other, op)]
\* The run of an operation whose first argument is a date shifted in place:
\* the owner of that date's moment is shifted, and owns the result's moment.
ShiftOwner(ran, owner, other, op) ==
  CASE owner.kind = "term" ->
         Ran(ran.result, ShiftTerm(ran.closure, <<1>> \o owner.path, other, op),
             ran.bindings, [kind |-> "term", path |-> <<1>> \o owner.path])
    [] owner.kind = "binding" ->
         Ran(ran.result, ran.closure,
             set(ran.bindings, owner.variable,
                 AfterMethod(get(ran.bindings, owner.variable), other, op)),
             owner)
    [] OTHER -> ran
RECURSIVE Run(_, _)
RECURSIVE RunArgs(_, _, _)
\* args.map(arg => arg(bindings)) from the i-th argument on: the arguments
\* are called in order, up to the first that throws.
RunArgs(args, bindings, i) ==
  IF i > Len(args)
  THEN [args |-> args, bindings |-> bindings, results |-> << >>, owners |-> << >>]
  ELSE The({ IF IsThrow(r.result)
             THEN [args |-> [args EXCEPT ![i] = r.closure], bindings |-> r.bindings,
                   results |-> <<r.result>>, owners |-> <<r.owner>>]
             ELSE The({ [rest EXCEPT !.results = <<r.result>> \o @,
                                     !.owners = <<r.owner>> \o @]
                        : rest \in {RunArgs([args EXCEPT ![i] = r.closure],
                                            r.bindings, i + 1)} })
             : r \in {Run(args[i], bindings)} })
Run(closure, bindings) ==
  CASE closure.kind = "bindArgument" ->
         Ran(Ok(bindArgument(closure.variable, bindings)), closure, bindings,
             IF has(bindings, closure.variable)
             THEN [kind |-> "binding", variable |-> closure.variable] ELSE NoOwner)
    [] closure.kind = "constant" ->
         Ran(Ok(closure.value), closure, bindings, [kind |-> "term", path |-> << >>])
    [] closure.kind = "operation" ->
         The({ The({ IF /\ IsOk(values)
                        /\ closure.operator \in ArithmeticOperators
                        /\ Len(values.val) >= 2
                        /\ IsConcreteTerm(values.val[1]) /\ IsConcreteTerm(values.val[2])
                        /\ ShiftsInPlace(values.val[1], values.val[2],
                                         MethodOf(closure.operator))
                     THEN ShiftOwner(ran, s.owners[1], values.val[2],
                                     MethodOf(closure.operator))
                     ELSE ran
                     : values \in {Sequenced(s.results)},
                       ran \in {Ran(CallOperation(closure.operator, Sequenced(s.results)),
                                    [closure EXCEPT !.args = s.args], s.bindings,
                                    NoOwner)} })
               : s \in {RunArgs(closure.args, bindings, 1)} })
    [] closure.kind = "aggregate" ->
         Ran(IF hasProperty(bindings, "__aggregate")
             THEN CallAggregation(closure.aggregation, closure.expression,
                                  getProperty(bindings, "__aggregate"), closure.separator)
             ELSE Ok(bindings),
             closure, bindings, NoOwner)
    [] closure.kind = "functionCall" ->
         The({ IF IsThrow(args) THEN Ran(CatchToNull(args), closure, bindings, NoOwner)
               ELSE The({ Ran(CatchToNull(
                                The({ IF IsThrow(values) THEN values
                                      ELSE CallCustom(closure.function, values.val)
                                      : values \in {Sequenced(s.results)} })),
                              closure, s.bindings, NoOwner)
                          : s \in {RunArgs(args.val, bindings, 1)} })
               : args \in {Sequenced([i \in 1..Len(closure.args) |->
                   _compileExpression(closure.args[i], closure.customFunctions)])} })
\* closure(bindings): the completion of the call of a compiled expression.
Call(closure, bindings) == Run(closure, bindings).result

\* new SPARQLExpression(expression, customFunctions): a string is parsed
\* first; the value is the compiled expression, or what the constructor throws.
SPARQLExpression(expression, customFunctions) ==
  IF expression.cls = "string"
  THEN The({ IF IsThrow(t) THEN t ELSE _compileExpression(t.val, customFunctions)
             : t \in {parseTerm(expression.s)} })
  ELSE _compileExpression(expression, customFunctions)
\* evaluate(bindings)
evaluate(compiled, bindings) == Call(compiled, bindings)


(***************************************************************************)
(* GROUP BY (sparql-groupby.ts).                                           *)
(***************************************************************************)
DefaultGroupKey == "http://callidon.github.io/sparql-engine#DefaultGroupKey"
RECURSIVE Join(_, _)
Join(strs, sep) ==
  IF strs = << >> THEN ""
  ELSE IF Len(strs) = 1 THEN strs[1]
  ELSE strs[1] \o sep \o Join(Tail(strs), sep)
_hashBindings(vs, bindings) ==
  IF Len(vs) = 0 THEN DefaultGroupKey
  ELSE Join([i \in 1..Len(vs) |->
               IF has(bindings, vs[i]) THEN toRDF(get(bindings, vs[i])) ELSE "null"], ";")
\* buildNewGroup(variables): a Map with an empty array for each variable.
RECURSIVE buildNewGroup(_)
buildNewGroup(vs) ==
  IF vs = << >> THEN EmptyMap
  ELSE MapSet(buildNewGroup(SubSeq(vs, 1, Len(vs) - 1)), vs[Len(vs)], JSArray(<< >>))

\* bindings.forEach((variable, value) => group.get(variable).push(value)) on
\* one group: the group after the calls made, and how the iteration ended.
\* group.get(variable) is undefined for a variable the group has no array
\* for, and push on it a TypeError.
RECURSIVE PushAll(_, _)
PushAll(group, calls) ==
  IF calls = << >> THEN [group |-> group, done |-> Ok(JSNull)]
  ELSE IF IsThrow(Head(calls)) THEN [group |-> group, done |-> Head(calls)]
  ELSE LET c == Head(calls).val
           list == MapGet(group, c.variable)
       IN IF list.cls # "array" THEN [group |-> group, done |-> Throw("TypeError")]
          ELSE The({ PushAll(g, Tail(calls))
                     : g \in {MapSet(group, c.variable,
                                     JSArray(Append(list.items, c.value)))} })

\* The callback of the map stage on one input binding: the two tables after
\* it and its completion (it returns null).
Accumulate(gs, ks, vs, b) ==
  LET key == JSString(_hashBindings(vs, b))
      isNew == ~MapHas(gs, key)
      rep == filter(b, IndexOfPredicate(vs))
      ks1 == IF isNew THEN MapSet(ks, key, rep.val) ELSE ks
      gs1 == IF isNew THEN MapSet(gs, key, buildNewGroup(variables(b))) ELSE gs
  IN IF isNew /\ IsThrow(rep) THEN [groups |-> gs, keys |-> ks, done |-> rep]
     ELSE The({ [groups |-> MapSet(gs1, key, pushed.group), keys |-> ks1,
                 done |-> pushed.done]
                : pushed \in {PushAll(MapGet(gs1, key), forEachCalls(b))} })

\* The body of groups.forEach in the mergeMap callback, on one group and the
\* representative stored for its key: the binding pushed on aggregates, and
\* the stored representative afterwards.  Setting the payload on the
\* representative itself would leave it in the keys table with the payload.
EmitInPlace(rep, group) ==
  [emitted |-> Ok(setProperty(rep, "__aggregate", JSMap(group))),
   stored |-> setProperty(rep, "__aggregate", JSMap(group))]
\* const b = keys.get(key).clone(); b.setProperty('__aggregate', group)
EmitGroup(rep, group) ==
  LET b == clone(rep)
  IN [emitted |-> IF IsThrow(b) THEN b
                  ELSE Ok(setProperty(b.val, "__aggregate", JSMap(group))),
      stored |-> rep]
\* The callback of the mergeMap stage: the array of the bindings to emit,
\* one per group in the order of the groups table, each the clone of the
\* group's representative with the group under '__aggregate'.
Aggregates(gs, ks) ==
  Sequenced([i \in 1..Len(gs) |-> EmitGroup(MapGet(ks, gs[i].key), gs[i].val).emitted])
\* The keys table after the callback of the mergeMap stage.
Represented(gs, ks) ==
  Tuple([j \in 1..Len(ks) |->
     [key |-> ks[j].key,
      val |-> IF MapHas(gs, ks[j].key)
              THEN EmitGroup(ks[j].val, MapGet(gs, ks[j].key)).stored
              ELSE ks[j].val]])


(***************************************************************************)
(* The inputs of the model.                                                *)
(***************************************************************************)
Ints == (0 - MaxInt)..MaxInt
\* The lexical form of an integer literal, as the algebra tree holds it.
IntLex(n) == "\"" \o ToString(n) \o "\"^^" \o XSD("integer")
StrLex(s) == "\"" \o s \o "\""
BoolLex(s) == "\"" \o s \o "\"^^" \o XSD("boolean")
DateLex(s) == "\"" \o s \o "\"^^" \o XSD("dateTime")
TermOf(lex) == parseTerm(lex).val
\* The registry's Variable object of a name.
Var(name) == allocate(JSString(name)).val

LiteralLeaves == {IntLex(n) : n \in Ints} \cup {StrLex("a"), StrLex("b"), BoolLex("true")}
Leaves == { JSString(l) : l \in LiteralLeaves \cup {"?x", "http://example.org/a"} }
SmallLeaves == { JSString(l) : l \in {IntLex(1), StrLex("a"), "?x"} }
BinaryOperators == {"+", "-", "*", "/", "="}
UnaryOperators == {"!", "bound", "foo", "toString"}
Separators == {JSUndefined, JSString(" ")}
AggregateNodes ==
  { AggregateNode(g, JSString(v), sep) :
      g \in {"count", "sum", "median"}, v \in {"?v", "?value"}, sep \in Separators }
BinaryNodes == { OperationNode(op, <<a, b>>) : op \in BinaryOperators, a \in Leaves, b \in Leaves }
UnaryNodes == { OperationNode(op, <<a>>) : op \in UnaryOperators, a \in Leaves }
\* Nodes used as arguments of other nodes.
InnerNodes ==
  { OperationNode(op, <<a, b>>)
      : op \in {"+", "-"}, a \in SmallLeaves, b \in SmallLeaves }
  \cup { OperationNode("foo", <<JSString(IntLex(1))>>),
         AggregateNode("median", JSString("?v"), JSUndefined),
         AggregateNode("count", JSString("?v"), JSUndefined) }
  \cup { FunctionCallNode(f, <<a>>) :
           f \in {"list", "fail", "unregistered"},
           a \in {JSString(IntLex(1)), OperationNode("+", <<JSString(IntLex(1)), JSString(IntLex(1))>>)} }
NestedNodes ==
  { OperationNode(op, <<n, a>>)
      : op \in {"+", "-"}, n \in InnerNodes, a \in SmallLeaves }
ArgumentLists ==
  {<< >>}
  \cup { <<a>> : a \in Leaves }
  \cup { <<JSArray(<<JSString(IntLex(1)), JSString(StrLex("a"))>>)>> }
  \cup { <<n>> : n \in InnerNodes }
  \cup { <<n, JSString(IntLex(2))>> : n \in InnerNodes }
FunctionCallNodes ==
  { FunctionCallNode(f, args) :
      f \in {"list", "fail", "numeric", "unregistered"}, args \in ArgumentLists }
\* Language tags and ranges, and the langmatches nodes over them.
LangTags == {"en-US", "en", "EN", "fr", "fr-en-"}
LangRanges == {"en", "EN", "fr", "*"}
LangmatchesNodes ==
  { OperationNode("langmatches", <<JSString(StrLex(t)), JSString(StrLex(r))>>)
      : t \in LangTags, r \in LangRanges }
\* The substr nodes: a string, plain or with a language tag, an index and
\* a length, and the same without the length.
SubstrStrings == {StrLex("hello"), StrLex("hello") \o "@en"}
SubstrNodes ==
  { OperationNode("substr", <<JSString(s), JSString(IntLex(i)), JSString(IntLex(n))>>)
      : s \in SubstrStrings, i \in Ints, n \in Ints }
  \cup { OperationNode("substr", <<JSString(s), JSString(IntLex(i))>>)
           : s \in SubstrStrings, i \in Ints }
\* The nodes over dates: a date alone, a date with a Boolean, an integer, a
\* date or a string, and a date shifted twice.
DateNodes ==
  { JSString(DateLex("1970-01-01T00:00:01Z")) }
  \cup { OperationNode(op, <<JSString(DateLex("1970-01-01T00:00:01Z")), JSString(x)>>)
           : op \in {"+", "-", "*", "="},
             x \in {BoolLex("true"), IntLex(1), DateLex("1970-01-01T00:00:02Z"), StrLex("a"), "?x"} }
  \cup { OperationNode("+",
           <<OperationNode(op, <<JSString(DateLex("1970-01-01T00:00:01Z")),
                                 JSString(BoolLex("true"))>>),
             JSString(BoolLex("true"))>>) : op \in {"+", "-"} }
Expressions ==
  DateNodes \cup Leaves \cup BinaryNodes \cup UnaryNodes \cup NestedNodes \cup AggregateNodes
  \cup FunctionCallNodes \cup LangmatchesNodes \cup SubstrNodes
CustomFunctionRegistries == {JSUndefined, Registry({"list", "fail", "numeric"})}

\* A binding built as BindingBase.fromObject builds it: the keys are the
\* registry's variables, the values parsed terms.
RECURSIVE fromObject(_)
fromObject(pairs) ==
  IF pairs = << >> THEN EmptyBindings
  ELSE set(fromObject(SubSeq(pairs, 1, Len(pairs) - 1)),
           Var(pairs[Len(pairs)][1]), TermOf(pairs[Len(pairs)][2]))
\* A binding that carries the payload of a group: the values of ?v (and of
\* ?value) in the group.
Grouped(b, ns) ==
  LET list == JSArray([i \in 1..Len(ns) |-> TermOf(IntLex(ns[i]))])
  IN setProperty(b, "__aggregate",
       JSMap(<<[key |-> Var("v"), val |-> list], [key |-> Var("value"), val |-> list]>>))
GroupLists == {<<10, 20>>, <<5>>}
EvalBindings ==
  { EmptyBindings, fromObject(<<<<"x", IntLex(1)>>>>), fromObject(<<<<"x", StrLex("a")>>>>),
    fromObject(<<<<"x", DateLex("1970-01-01T00:00:01Z")>>>>) }
  \cup { Grouped(fromObject(<<<<"g", IntLex(1)>>>>), ns) : ns \in GroupLists }

(***************************************************************************)
(* State.                                                                  *)
(***************************************************************************)
VARIABLES
  expression,       \* the algebra tree given to new SPARQLExpression
  customFunctions,  \* the registry given with it
  compiled,         \* the completion of the constructor, once it has run
  bindings,         \* the argument of the last evaluate
  result,           \* the completion of the last evaluate
  evals,            \* the number of evaluate calls made
  pc,               \* "new", "compiled", "failed", "evaluated"
  source,           \* the bindings the source stage delivers, in order
  groupVars,        \* the GROUP BY variables
  consumed,         \* the number of source bindings the map stage has taken
  groups,           \* Map<string, SPARQLGroup>
  keys,             \* Map<string, Bindings>
  output,           \* the bindings the returned stage has emitted
  pending,          \* the bindings the mergeMap stage still has to emit
  gpc,              \* "idle", "map", "emit", "done", "error"
  thisLit,          \* the literal a method is called on, as it is now
  otherLit,         \* the literal passed to the method, as it is now
  thisBefore,       \* thisLit as it was before the last call
  otherBefore,      \* otherLit as it was before the last call
  rows,             \* the array of terms given to an aggregation
  outcome,          \* the completion of the last call
  shares,           \* whether the last result holds thisLit's native value
  did,              \* the last call: "none", a method, an operator, ...
  calls,            \* the number of calls made
  allocated,         \* Variable._allocated: from a name to its Variable object
  made,             \* the number of Variable objects constructed so far
  obtained,         \* the Variable objects handed out, each with its identity
  receiver,         \* the Bindings a method is called on, as it is now
  argument,         \* the Bindings passed to the method, as it is now
  receiverBefore,   \* receiver as it was before the last call
  argumentBefore,   \* argument as it was before the last call
  sameObjects,      \* whether equal terms of the two are the same objects
  returned,         \* the completion of the last call on receiver
  returnedObject,   \* the object returned: "new", "this", "other" or "none"
  visited,          \* the (variable, value) pairs the last forEach gave its callback
  called,           \* the last method called on receiver
  bcalls,           \* the number of calls made on receiver and on the returned object
  formatter,        \* the ResultsFormatter: what its _prepend and _append return
  fsource,          \* the bindings the formatter's source stage delivers, in order
  taken,            \* the number of source bindings the flatMap stage has taken
  first,            \* the local `first` of apply
  prepended,        \* the arguments of the calls of _prepend, in order
  ofPending,        \* whether the stage engine.of(...) has still to deliver
  emitted,          \* what the merged stage has delivered, in order
  thisNode,         \* the NodePath equals is called on
  otherNode,        \* the NodePath passed to equals
  compared,         \* the last call: "none", "Path.equals" or "NodePath.equals"
  answer            \* the completion of the last call

exprVars == <<expression, customFunctions, compiled, bindings, result, evals, pc>>
groupVarsAll == <<source, groupVars, consumed, groups, keys, output, pending, gpc>>
registryVars == <<allocated, made, obtained>>
termVars ==
  <<thisLit, otherLit, thisBefore, otherBefore, rows, outcome, shares, did, calls,
    registryVars>>
bindingsVars ==
  <<receiver, argument, receiverBefore, argumentBefore, sameObjects, returned,
    returnedObject, visited, called, bcalls>>
formatVars == <<formatter, fsource, taken, first, prepended, ofPending, emitted>>
pathVars == <<thisNode, otherNode, compared, answer>>
laterVars == <<bindingsVars, formatVars, pathVars>>
vars == <<exprVars, groupVarsAll, termVars, laterVars>>

None == [cls |-> "none"]

GroupByIdle ==
  /\ source = << >> /\ groupVars = << >> /\ consumed = 0
  /\ groups = EmptyMap /\ keys = EmptyMap /\ output = << >> /\ pending = << >>
  /\ gpc = "idle"
TermsIdle ==
  /\ thisLit = None /\ otherLit = None /\ thisBefore = None /\ otherBefore = None
  /\ rows = None /\ outcome = None /\ shares = FALSE /\ did = "idle" /\ calls = 0
  /\ allocated = << >> /\ made = 0 /\ obtained = {}
BindingsIdle ==
  /\ receiver = None /\ argument = None /\ receiverBefore = None /\ argumentBefore = None
  /\ sameObjects = FALSE /\ returned = None /\ returnedObject = "none"
  /\ visited = << >> /\ called = "idle" /\ bcalls = 0
FormatIdle ==
  /\ formatter = None /\ fsource = << >> /\ taken = 0 /\ first = TRUE
  /\ prepended = << >> /\ ofPending = FALSE /\ emitted = << >>
PathsIdle == thisNode = None /\ otherNode = None /\ compared = "idle" /\ answer = None
LaterIdle == BindingsIdle /\ FormatIdle /\ PathsIdle
ExprIdle ==
  /\ expression = None /\ customFunctions = JSUndefined /\ compiled = None
  /\ bindings = None /\ result = None /\ evals = 0 /\ pc = "idle"

(***************************************************************************)
(* Compiling and evaluating an expression.                                 *)
(***************************************************************************)
Init ==
  /\ expression \in Expressions
  /\ customFunctions \in CustomFunctionRegistries
  /\ compiled = None /\ bindings = None /\ result = None /\ evals = 0
  /\ pc = "new"
  /\ GroupByIdle
  /\ TermsIdle
  /\ LaterIdle

\* new SPARQLExpression(expression, customFunctions)
Construct ==
  /\ pc = "new"
  /\ compiled' = SPARQLExpression(expression, customFunctions)
  /\ pc' = IF IsThrow(compiled') THEN "failed" ELSE "compiled"
  /\ UNCHANGED <<laterVars, expression, customFunctions, bindings, result, evals, groupVarsAll, termVars>>

\* evaluate(b), on bindings built for the call or on those of the call
\* before, as that call has left them.
Evaluate ==
  /\ pc \in {"compiled", "evaluated"}
  /\ evals < MaxEvals
  /\ \E b \in EvalBindings \cup {x \in {bindings} : pc = "evaluated"} :
       \E ran \in {Run(compiled.val, b)} :
         /\ result' = ran.result
         /\ compiled' = Ok(ran.closure)
         /\ bindings' = ran.bindings
  /\ evals' = evals + 1
  /\ pc' = "evaluated"
  /\ UNCHANGED <<laterVars, expression, customFunctions, groupVarsAll, termVars>>

Next == Construct \/ Evaluate
Spec == Init /\ [][Next]_vars

(***************************************************************************)
(* sparqlGroupBy(source, variables).  The stage it returns is               *)
(* mergeMap(collect(map(source, accumulate)), emit): the map stage calls    *)
(* the accumulating callback on each binding of the source, collect hands  *)
(* over once the source has completed, and the mergeMap callback then      *)
(* builds the bindings that the stage emits one by one.  A callback that   *)
(* throws ends the stage with an error.                                    *)
(***************************************************************************)
GroupInputs ==
  { EmptyBindings,
    fromObject(<<<<"g", IntLex(1)>>, <<"v", IntLex(10)>>>>),
    fromObject(<<<<"g", IntLex(1)>>, <<"v", IntLex(20)>>>>),
    fromObject(<<<<"g", IntLex(2)>>, <<"v", IntLex(5)>>>>) }
Sources == UNION { [1..n -> GroupInputs] : n \in 0..MaxSource }
GroupVariables == { << >>, <<Var("g")>> }

GroupByInit ==
  /\ source \in Sources
  /\ groupVars \in GroupVariables
  /\ consumed = 0
  /\ groups = EmptyMap /\ keys = EmptyMap
  /\ output = << >> /\ pending = << >>
  /\ gpc = "map"
  /\ ExprIdle
  /\ TermsIdle
  /\ LaterIdle

\* A stage without collect would hand over after any binding.
Uncollected(n, src) == n <= Len(src)
\* engine.collect(op): the collected array is delivered when op has
\* delivered the result of every binding of the source and completed.
Collected(n, src) == n = Len(src)

\* The map stage takes the next binding of the source and runs the callback.
MapStep ==
  /\ gpc = "map"
  /\ consumed < Len(source)
  /\ LET r == Accumulate(groups, keys, groupVars, source[consumed + 1])
     IN /\ groups' = r.groups
        /\ keys' = r.keys
        /\ IF IsThrow(r.done)
           THEN gpc' = "error" /\ consumed' = consumed
           ELSE gpc' = "map" /\ consumed' = consumed + 1
  /\ UNCHANGED <<laterVars, source, groupVars, output, pending, exprVars, termVars>>

\* The source has completed: collect delivers, and the mergeMap callback
\* builds the array of the bindings to emit.
Complete ==
  /\ gpc = "map"
  /\ Collected(consumed, source)
  /\ LET aggregates == Aggregates(groups, keys)
     IN IF IsThrow(aggregates)
        THEN gpc' = "error" /\ pending' = pending
        ELSE gpc' = "emit" /\ pending' = aggregates.val
  /\ keys' = Represented(groups, keys)
  /\ UNCHANGED <<laterVars, source, groupVars, consumed, groups, output, exprVars, termVars>>

\* engine.from(aggregates) delivers the next binding downstream.
Emit ==
  /\ gpc = "emit"
  /\ pending # << >>
  /\ output' = Append(output, Head(pending))
  /\ pending' = Tail(pending)
  /\ UNCHANGED <<laterVars, source, groupVars, consumed, groups, keys, gpc, exprVars, termVars>>

\* engine.from(aggregates) completes, and the stage with it.
Finish ==
  /\ gpc = "emit"
  /\ pending = << >>
  /\ gpc' = "done"
  /\ UNCHANGED <<laterVars, source, groupVars, consumed, groups, keys, output, pending, exprVars, termVars>>

GroupByNext == MapStep \/ Complete \/ Emit \/ Finish
GroupBySpec == GroupByInit /\ [][GroupByNext]_vars
\* The pipeline runs every stage that can run.
GroupByFairSpec == GroupBySpec /\ WF_vars(GroupByNext)

(***************************************************************************)
(* Calls on literals: the round trip through toRDF and parseTerm, the four *)
(* arithmetic methods, the four arithmetic entries of the operation table  *)
(* and the aggregations, on literals that parseLiteral has built.          *)
(***************************************************************************)
Lit(value, type) == parseLiteral(value, JSString(XSD(type)), JSNull)
NumericInputs == {Lit("0", "integer"), Lit("1", "integer"), Lit("2", "integer"),
                  Lit("1.5", "decimal")}
StringInputs == {parseLiteral("a", JSNull, JSNull), parseLiteral("b", JSNull, JSString("en")),
                 Lit("a", "string")}
BooleanInputs == {Lit("true", "boolean"), Lit("false", "boolean")}
DateInputs == {Lit("1970-01-01T00:00:01Z", "dateTime"), Lit("1970-01-01T00:00:02Z", "dateTime")}
BufferInputs == {Lit("0aff", "hexBinary"), Lit("aGk=", "base64Binary")}
LiteralInputs ==
  NumericInputs \cup StringInputs \cup BooleanInputs \cup DateInputs \cup BufferInputs
RowInputs ==
  { JSArray(r) : r \in { << >>,
                         <<Lit("1", "integer"), Lit("2", "integer")>>,
                         <<Lit("a", "string"), Lit("true", "boolean")>>,
                         <<Lit("2", "integer"), Lit("a", "string"), Lit("1", "integer"),
                           Lit("3", "integer")>>,
                         <<Lit("1", "integer"), Lit("1.5", "decimal"), Lit("true", "boolean")>> } }

TermInit ==
  /\ thisLit \in LiteralInputs /\ otherLit \in LiteralInputs
  /\ thisBefore = thisLit /\ otherBefore = otherLit
  /\ rows \in RowInputs
  /\ outcome = None /\ shares = FALSE /\ did = "none" /\ calls = 0
  /\ allocated = << >> /\ made = 0 /\ obtained = {}
  /\ ExprIdle /\ GroupByIdle
  /\ LaterIdle
\* parseTerm(thisLit.toRDF())
RoundTrip ==
  /\ calls < MaxCalls
  /\ outcome' = parseTerm(toRDF(thisLit))
  /\ shares' = FALSE /\ did' = "roundTrip" /\ calls' = calls + 1
  /\ thisBefore' = thisLit /\ otherBefore' = otherLit
  /\ UNCHANGED <<laterVars, thisLit, otherLit, rows, exprVars, groupVarsAll, registryVars>>
\* thisLit.add(otherLit), .minus, .multiply, .div
Method ==
  /\ calls < MaxCalls
  /\ \E op \in Methods :
       /\ outcome' = LiteralMethod(thisLit, otherLit, op)
       /\ thisLit' = AfterMethod(thisLit, otherLit, op)
       /\ shares' = ShiftsInPlace(thisLit, otherLit, op)
       /\ did' = op
  /\ calls' = calls + 1
  /\ thisBefore' = thisLit /\ otherBefore' = otherLit
  /\ UNCHANGED <<laterVars, otherLit, rows, exprVars, groupVarsAll, registryVars>>
\* SPARQL_OPERATIONS[operator](thisLit, otherLit) for the arithmetic entries
Operate ==
  /\ calls < MaxCalls
  /\ \E operator \in ArithmeticOperators :
       /\ outcome' = ApplyOperation(operator, <<thisLit, otherLit>>)
       /\ thisLit' = AfterMethod(thisLit, otherLit, MethodOf(operator))
       /\ shares' = ShiftsInPlace(thisLit, otherLit, MethodOf(operator))
       /\ did' = operator
  /\ calls' = calls + 1
  /\ thisBefore' = thisLit /\ otherBefore' = otherLit
  /\ UNCHANGED <<laterVars, otherLit, rows, exprVars, groupVarsAll, registryVars>>
\* SPARQL_AGGREGATES[aggregation](rows)
Aggregate ==
  /\ calls < MaxCalls
  /\ \E aggregation \in {"count", "sum", "avg"} :
       /\ outcome' = ApplyAggregation(aggregation, rows, JSUndefined, JSUndefined)
       /\ did' = aggregation
  /\ shares' = FALSE /\ calls' = calls + 1
  /\ thisBefore' = thisLit /\ otherBefore' = otherLit
  /\ UNCHANGED <<laterVars, thisLit, otherLit, rows, exprVars, groupVarsAll, registryVars>>
\* The terms compared besides the two literals: an IRI, a variable, and a
\* numeric literal whose text is no number.
ComparedTerms == { TermOf("http://example.org/a"), Var("x"), Lit("a", "integer") }
\* t.equals(u), t.compareTo(u), and the '=' and '!=' entries on (t, u), for
\* u the term t itself or another term.
Compare ==
  /\ calls < MaxCalls
  /\ \E t \in {thisLit} \cup ComparedTerms :
       \E u \in {t, otherLit} :
         outcome' = Ok([cls |-> "comparison", this |-> t, other |-> u,
                        equals |-> TermEquals(t, u),
                        compareTo |-> compareTo(t, u),
                        eq |-> OpEquals(t, u),
                        ne |-> OpNotEquals(t, u)])
  /\ shares' = FALSE /\ did' = "compare" /\ calls' = calls + 1
  /\ thisBefore' = thisLit /\ otherBefore' = otherLit
  /\ UNCHANGED <<laterVars, thisLit, otherLit, rows, exprVars, groupVarsAll, registryVars>>
TermNext == RoundTrip \/ Method \/ Operate \/ Aggregate \/ Compare
TermSpec == TermInit /\ [][TermNext]_vars

(***************************************************************************)
(* Creating variables.  Variable._allocated is a Map from a name to the    *)
(* Variable built for it; every Variable object constructed gets the next  *)
(* number as its identity.  A variable the model's allocate or parseTerm   *)
(* marks "interned" is the registry's object, one marked "fresh" is a new  *)
(* object on every call.                                                   *)
(***************************************************************************)
VariableTexts == {"x", "?x", "y", "?y"}
\* The registry after a variable has been asked for.
Registered(v) ==
  IF v.ref = "interned" /\ v.value \notin DOMAIN allocated
  THEN [n \in DOMAIN allocated \cup {v.value} |->
          IF n = v.value THEN made + 1 ELSE allocated[n]]
  ELSE allocated
\* The object the caller receives: the registry's for an interned variable,
\* a new one for a fresh variable.
Handed(v) ==
  [var |-> v, oid |-> IF v.ref = "interned" THEN Registered(v)[v.value] ELSE made + 1]
Constructed(v) ==
  IF v.ref = "fresh" \/ v.value \notin DOMAIN allocated THEN 1 ELSE 0
RegistryInit ==
  /\ allocated = << >> /\ made = 0 /\ obtained = {}
  /\ thisLit = None /\ otherLit = None /\ thisBefore = None /\ otherBefore = None
  /\ rows = None /\ outcome = None /\ shares = FALSE /\ did = "idle" /\ calls = 0
  /\ ExprIdle /\ GroupByIdle
  /\ LaterIdle
\* Variable.allocate(text)
Allocate ==
  /\ made < MaxVariables
  /\ \E text \in VariableTexts :
       LET v == allocate(JSString(text)).val
       IN /\ allocated' = Registered(v)
          /\ made' = made + Constructed(v)
          /\ obtained' = obtained \cup {Handed(v)}
  /\ UNCHANGED <<laterVars, exprVars, groupVarsAll, thisLit, otherLit, thisBefore, otherBefore,
                 rows, outcome, shares, did, calls>>
\* parseTerm(text) on a text that starts with '?'
ParseTerm ==
  /\ made < MaxVariables
  /\ \E text \in {t \in VariableTexts : startsWith(t, "?")} :
       LET v == parseTerm(text).val
       IN /\ allocated' = Registered(v)
          /\ made' = made + Constructed(v)
          /\ obtained' = obtained \cup {Handed(v)}
  /\ UNCHANGED <<laterVars, exprVars, groupVarsAll, thisLit, otherLit, thisBefore, otherBefore,
                 rows, outcome, shares, did, calls>>
\* BindingBase.fromObject({[key]: '"1"'}): the key goes through
\* Variable.allocate, the value through parseTerm.
FromObject ==
  /\ made < MaxVariables
  /\ \E key \in VariableTexts :
       LET b == fromObject(<< <<key, StrLex("1")>> >>)
           v == variables(b)[1]
       IN /\ allocated' = Registered(v)
          /\ made' = made + Constructed(v)
          /\ obtained' = obtained \cup {Handed(v)}
  /\ UNCHANGED <<laterVars, exprVars, groupVarsAll, thisLit, otherLit, thisBefore, otherBefore,
                 rows, outcome, shares, did, calls>>
RegistryNext == Allocate \/ ParseTerm \/ FromObject
RegistrySpec == RegistryInit /\ [][RegistryNext]_vars

(***************************************************************************)
(* Calls on Bindings: the methods that return a Bindings, the methods that *)
(* iterate, and set and setProperty on the instance a method returned.     *)
(***************************************************************************)
\* The text s"@: the toRDF of a parsed string literal, which has the empty
\* language tag, without its first quote.
Quoted(s) == s \o "\"@"
BindingsInputs ==
  { EmptyBindings,
    setProperty(EmptyBindings, "p", JSString("1")),
    fromObject(<<<<"x", IntLex(1)>>>>),
    fromObject(<<<<"x", StrLex("a")>>>>),
    fromObject(<<<<"x", IntLex(1)>>, <<"y", IntLex(2)>>>>),
    setProperty(fromObject(<<<<"y", IntLex(2)>>, <<"x", IntLex(1)>>>>), "p", JSString("1")),
    fromObject(<<<<"x", "\"1.0\"^^" \o XSD("decimal")>>>>),
    fromObject(<<<<"x", StrLex("1")>>>>),
    fromObject(<<<<"x", StrLex("a")>>, <<"y", StrLex(Quoted("b") \o ";" \o "\"c")>>>>),
    fromObject(<<<<"x", StrLex(Quoted("a") \o ";" \o "\"b")>>, <<"y", StrLex("c")>>>>) }
\* The lists of grouping variables given to _hashBindings.
HashVariables == { << >>, <<Var("x")>>, <<Var("x"), Var("y")>>, <<Var("y"), Var("z")>> }
\* The arguments of the caller's that are no Bindings.
Pairs == << [variable |-> Var("z"), value |-> TermOf(IntLex(1))] >>
Returning == [cls |-> "closure", kind |-> "variable"]
Renaming == [cls |-> "closure", kind |-> "constant", to |-> Var("z")]
Replacing == [cls |-> "closure", kind |-> "constant", to |-> TermOf(IntLex(2))]
Swapping ==
  [cls |-> "closure", kind |-> "pair", first |-> Renaming, second |-> [cls |-> "closure", kind |-> "value"]]
IsX == [cls |-> "closure", kind |-> "is", variable |-> Var("x")]
ReturningBindings ==
  {"clone", "extendMany", "union", "intersection", "difference", "map", "mapVariables",
   "mapValues", "filter"}
Iterating == {"toObject", "some", "every", "isSubset"}
\* receiver.method(...): the completion of the call.
CallBindings(method, b, other, same) ==
  CASE method = "clone" -> clone(b)
    [] method = "extendMany" -> extendMany(b, Pairs)
    [] method = "union" -> union(b, other)
    [] method = "intersection" -> intersection(b, other, same)
    [] method = "difference" -> difference(b, other)
    [] method = "map" -> map(b, Swapping)
    [] method = "mapVariables" -> mapVariables(b, Renaming)
    [] method = "mapValues" -> mapValues(b, Replacing)
    [] method = "filter" -> filter(b, IsX)
    [] method = "toObject" -> toObject(b)
    [] method = "some" -> some(b, IsX)
    [] method = "every" -> every(b, IsX)
    [] method = "isSubset" -> isSubset(b, other)

BindingsInit ==
  /\ receiver \in BindingsInputs /\ argument \in BindingsInputs
  /\ receiverBefore = receiver /\ argumentBefore = argument
  /\ sameObjects \in BOOLEAN
  /\ returned = None /\ returnedObject = "none"
  /\ visited = << >> /\ called = "none" /\ bcalls = 0
  /\ ExprIdle /\ GroupByIdle /\ TermsIdle /\ FormatIdle /\ PathsIdle
\* receiver.method(...) for a method that returns a Bindings.  None of them
\* writes to this or to other, and each starts from this.empty(), a new
\* BindingBase.
CallReturning ==
  /\ bcalls < MaxCalls
  /\ \E method \in ReturningBindings :
       /\ returned' = CallBindings(method, receiver, argument, sameObjects)
       /\ called' = method
  /\ returnedObject' = IF IsOk(returned') THEN "new" ELSE "none"
  /\ visited' = Visited(forEachCalls(receiver))
  /\ receiverBefore' = receiver /\ argumentBefore' = argument
  /\ bcalls' = bcalls + 1
  /\ UNCHANGED <<receiver, argument, sameObjects, exprVars, groupVarsAll, termVars, formatVars, pathVars>>
\* receiver.method(...) for a method that iterates and returns a value.
CallIterating ==
  /\ bcalls < MaxCalls
  /\ \E method \in Iterating :
       /\ returned' = CallBindings(method, receiver, argument, sameObjects)
       /\ called' = method
  /\ returnedObject' = "none"
  /\ visited' = Visited(forEachCalls(receiver))
  /\ receiverBefore' = receiver /\ argumentBefore' = argument
  /\ bcalls' = bcalls + 1
  /\ UNCHANGED <<receiver, argument, sameObjects, exprVars, groupVarsAll, termVars, formatVars, pathVars>>
\* set(variable, value) or setProperty(key, value) on the returned instance:
\* the receiver changes with it only if it is the same object.
WriteReturned ==
  /\ bcalls < MaxCalls
  /\ returnedObject # "none"
  /\ \E w \in {"set", "setProperty"} :
       /\ returned' = IF w = "set" THEN Ok(set(returned.val, Var("w"), TermOf(IntLex(0))))
                      ELSE Ok(setProperty(returned.val, "q", JSString("2")))
       /\ called' = w
  /\ receiver' = IF returnedObject = "this" THEN returned'.val ELSE receiver
  /\ argument' = IF returnedObject = "other" THEN returned'.val ELSE argument
  /\ receiverBefore' = receiver /\ argumentBefore' = argument
  /\ bcalls' = bcalls + 1
  /\ UNCHANGED <<returnedObject, visited, sameObjects, exprVars, groupVarsAll, termVars, formatVars, pathVars>>
\* _hashBindings(variables, receiver) and _hashBindings(variables, argument):
\* the keys under which GROUP BY files the two.
Hash ==
  /\ bcalls < MaxCalls
  /\ \E vs \in HashVariables :
       returned' = Ok([cls |-> "keys", variables |-> vs,
                       this |-> _hashBindings(vs, receiver),
                       other |-> _hashBindings(vs, argument)])
  /\ called' = "_hashBindings"
  /\ returnedObject' = "none"
  /\ receiverBefore' = receiver /\ argumentBefore' = argument
  /\ bcalls' = bcalls + 1
  /\ UNCHANGED <<receiver, argument, sameObjects, visited, exprVars, groupVarsAll, termVars, formatVars, pathVars>>
BindingsNext == CallReturning \/ CallIterating \/ WriteReturned \/ Hash
BindingsSpec == BindingsInit /\ [][BindingsNext]_vars
(***************************************************************************)
(* ResultsFormatter.apply (results-formatter.ts):                          *)
(* merge(flatMap(source, callback), of(this._append())).  The flatMap      *)
(* stage calls the callback on each binding of the source and delivers the *)
(* elements of the array it returns; the of stage delivers its one value;  *)
(* merge delivers what either stage delivers, as it comes, so a step of    *)
(* one stage can come before or after any step of the other.               *)
(***************************************************************************)
\* The formatters: a subclass gives _format, and may override _prepend and
\* _append, which return null in the base class.
Formatters == [cls : {"ResultsFormatter"}, prepends : BOOLEAN, appends : BOOLEAN]
_format(this, b) == [cls |-> "formatted", of |-> b]
_prepend(this, b) == IF this.prepends THEN [cls |-> "head", of |-> b] ELSE JSNull
_append(this) == IF this.appends THEN [cls |-> "tail"] ELSE JSNull
\* An element the merged stage delivers, with the stage it came from.
Delivered(stage, value) == [stage |-> stage, value |-> value]
\* The callback given to flatMap, on one binding: the array it returns.
FormatCallback(this, isFirst, b) ==
  (IF isFirst /\ _prepend(this, b) # JSNull THEN <<_prepend(this, b)>> ELSE << >>)
    \o <<_format(this, b)>>

\* formatter.apply(source): _append() is called, and its result handed to
\* engine.of, when the stages are built.
FormatInit ==
  /\ formatter \in Formatters
  /\ fsource \in Sources
  /\ taken = 0 /\ first = TRUE /\ prepended = << >>
  /\ ofPending = TRUE /\ emitted = << >>
  /\ ExprIdle /\ GroupByIdle /\ TermsIdle /\ BindingsIdle /\ PathsIdle
\* The flatMap stage takes the next binding of the source, runs the
\* callback and delivers the elements of its array.
FlatMapStep ==
  /\ taken < Len(fsource)
  /\ LET b == fsource[taken + 1]
         res == FormatCallback(formatter, first, b)
     IN /\ emitted' = emitted \o [i \in 1..Len(res) |-> Delivered("flatMap", res[i])]
        /\ prepended' = IF first THEN Append(prepended, b) ELSE prepended
  /\ first' = FALSE
  /\ taken' = taken + 1
  /\ UNCHANGED <<formatter, fsource, ofPending, exprVars, groupVarsAll, termVars, bindingsVars, pathVars>>
\* The of stage delivers its value.
OfStep ==
  /\ ofPending
  /\ emitted' = Append(emitted, Delivered("of", _append(formatter)))
  /\ ofPending' = FALSE
  /\ UNCHANGED <<formatter, fsource, taken, first, prepended, exprVars, groupVarsAll,
                 termVars, bindingsVars, pathVars>>
FormatNext == FlatMapStep \/ OfStep
FormatSpec == FormatInit /\ [][FormatNext]_vars
(***************************************************************************)
(* Property paths (node-path.ts): Path and NodePath.                       *)
(***************************************************************************)
Path(items, pathType) == [cls |-> "Path", items |-> items, pathType |-> pathType]
NodePath(subject, path, object) ==
  [cls |-> "NodePath", subject |-> subject, path |-> path, object |-> object]
\* lodash isEqualWith(value, other, customizer): the customizer is called
\* first with the two values themselves; if it returns something other than
\* undefined, that is the answer (as a boolean), and the values are compared
\* deeply otherwise.  The third parameter is what that first call gives.
isEqualWith(value, other, customized) ==
  IF IsThrow(customized) THEN customized
  ELSE IF customized.val = JSUndefined THEN Ok(value = other)
  ELSE Ok(customized.val)
RECURSIVE PathEquals(_, _)
\* The customizer of Path.equals on (left, right): two Paths by equals, two
\* values that are no Path by left.equals(right), which is a TypeError when
\* left has no method equals (an array has none), and false for a Path and
\* a value that is none.
Customizer(left, right) ==
  IF left.cls = "Path" /\ right.cls = "Path" THEN PathEquals(left, right)
  ELSE IF left.cls # "Path" /\ right.cls # "Path"
       THEN IF IsConcreteTerm(left) THEN TermEquals(left, right)
            ELSE Throw("TypeError")
  ELSE Ok(FALSE)
\* Path.equals(other): isEqualWith on the two item arrays when the path
\* types are the same, true when they are not.
PathEquals(this, other) ==
  IF this.pathType = other.pathType
  THEN isEqualWith(JSArray(this.items), JSArray(other.items),
                   Customizer(JSArray(this.items), JSArray(other.items)))
  ELSE Ok(TRUE)
\* NodePath.equals(other): &&, which ends at the first false.
NodePathEquals(this, other) ==
  IF other.cls # "NodePath" THEN Ok(FALSE)
  ELSE IF ~TermEquals(this.subject, other.subject).val THEN Ok(FALSE)
  ELSE IF ~TermEquals(this.object, other.object).val THEN Ok(FALSE)
  ELSE PathEquals(this.path, other.path)

PathItems == { TermOf("http://example.org/p"), TermOf("http://example.org/q") }
SimplePaths ==
  { Path(items, type) : items \in { << >> } \cup { <<i>> : i \in PathItems }
                                  \cup { <<i, j>> : i \in PathItems, j \in PathItems },
                        type \in {"/", "|"} }
PathInputs ==
  SimplePaths \cup { Path(<<p>>, "*") : p \in { q \in SimplePaths : Len(q.items) = 1 } }
NodePathInputs ==
  { NodePath(s, p, TermOf("?o")) : s \in { TermOf("?s"), TermOf("http://example.org/s") },
                                   p \in PathInputs }
PathInit ==
  /\ thisNode \in NodePathInputs /\ otherNode \in NodePathInputs
  /\ compared = "none" /\ answer = None
  /\ ExprIdle /\ GroupByIdle /\ TermsIdle /\ BindingsIdle /\ FormatIdle
\* thisNode.getPath().equals(otherNode.getPath())
ComparePaths ==
  /\ compared = "none"
  /\ answer' = PathEquals(thisNode.path, otherNode.path)
  /\ compared' = "Path.equals"
  /\ UNCHANGED <<thisNode, otherNode, exprVars, groupVarsAll, termVars, bindingsVars, formatVars>>
\* thisNode.equals(otherNode)
CompareNodes ==
  /\ compared = "none"
  /\ answer' = NodePathEquals(thisNode, otherNode)
  /\ compared' = "NodePath.equals"
  /\ UNCHANGED <<thisNode, otherNode, exprVars, groupVarsAll, termVars, bindingsVars, formatVars>>
PathNext == ComparePaths \/ CompareNodes
PathSpec == PathInit /\ [][PathNext]_vars
(***************************************************************************)
(* Properties of the compiled expressions.                                 *)
(***************************************************************************)
Evaluated == pc = "evaluated"
IsNode(e) == e.cls = "object"
\* The result of an argument of the root node, compiled and evaluated on its
\* own against the bindings of the last evaluate.
ArgumentResult(arg) ==
  LET c == SPARQLExpression(arg, customFunctions)
  IN IF IsThrow(c) THEN c ELSE evaluate(c.val, bindings)
ArgumentResults(args) == Tuple([i \in 1..Len(args) |-> ArgumentResult(args[i])])
AllOk(cs) == \A i \in 1..Len(cs) : IsOk(cs[i])
Values(cs) == Tuple([i \in 1..Len(cs) |-> cs[i].val])
\* Whether a node of the given type occurs in the tree.
RECURSIVE HasNodeOfType(_, _)
HasNodeOfType(e, type) ==
  /\ IsNode(e)
  /\ \/ e.type = type
     \/ /\ e.type \in {"operation", "functionCall"}
        /\ \E i \in 1..Len(e.args) : HasNodeOfType(e.args[i], type)
\* The root is op applied to the lexical forms of two integers.
IsIntegerOperation(op) ==
  \E a \in Ints, b \in Ints :
    expression = OperationNode(op, <<JSString(IntLex(a)), JSString(IntLex(b))>>)
LeftInt == CHOOSE a \in Ints : expression.args[1] = JSString(IntLex(a))
RightInt == CHOOSE b \in Ints : expression.args[2] = JSString(IntLex(b))
\* The result is a Numeric literal that equals() the Numeric literal of n.
IsNumericOf(c, n) ==
  /\ IsOk(c)
  /\ c.val.cls = "NumericLiteral"
  /\ TermEquals(c.val, NumericLiteral(ToString(n), IRI(XSD("integer")))) = Ok(TRUE)

RECURSIVE SumOf(_)
SumOf(ns) == IF ns = << >> THEN 0 ELSE Head(ns) + SumOf(Tail(ns))

\* C4: a compiled aggregate node evaluated on bindings that carry an
\* '__aggregate' payload returns the aggregation applied to the payload's
\* list of values of the aggregated variable: on the lists [10,20] and [5],
\* count gives 2 and 1, and sum gives 30 and 5.
C4_AggregateAppliesToValueList ==
  \A ns \in GroupLists :
    ( /\ Evaluated
      /\ IsNode(expression) /\ expression.type = "aggregate"
      /\ expression.expression = JSString("?v")
      /\ bindings = Grouped(fromObject(<<<<"g", IntLex(1)>>>>), ns) )
    => /\ expression.aggregation = "count" => IsNumericOf(result, Len(ns))
       /\ expression.aggregation = "sum" => IsNumericOf(result, SumOf(ns))

\* C5: evaluate on a compiled functionCall node never raises, and it returns
\* null when the custom function raises or when an argument sub-expression
\* raises.
C5_FunctionCallNeverRaises ==
  (Evaluated /\ IsNode(expression) /\ expression.type = "functionCall")
  => /\ IsOk(result)
     /\ expression.function = "fail" => result = Ok(JSNull)
     /\ (\E i \in 1..Len(expression.args) :
           IsNode(expression.args[i]) /\ IsThrow(ArgumentResult(expression.args[i])))
        => result = Ok(JSNull)
C5_Witness ==
  /\ Evaluated
  /\ IsNode(expression) /\ expression.type = "functionCall"
  /\ expression.function = "list"
  /\ \E i \in 1..Len(expression.args) :
       /\ IsNode(expression.args[i])
       /\ expression.args[i].type = "operation"
       /\ ArgumentResult(expression.args[i]) = Throw("LiteralOperationError")
  /\ result = Ok(JSNull)

\* C6: in a tree without functionCall nodes, an error raised by the operator
\* function of an operation node reaches the caller of evaluate as that
\* error; '-' on two String literals raises LiteralOperationError and '+' on
\* two String literals returns the String literal of their concatenation.
C6_OperatorErrorsPropagate ==
  ( /\ Evaluated
    /\ IsNode(expression) /\ expression.type = "operation"
    /\ ~HasNodeOfType(expression, "functionCall") )
  => LET rs == ArgumentResults(expression.args)
     IN /\ \A i \in 1..Len(rs) :
             (IsThrow(rs[i]) /\ \A j \in 1..(i - 1) : IsOk(rs[j])) => result = rs[i]
        /\ (AllOk(rs) /\ IsThrow(ApplyOperation(expression.operator, Values(rs))))
           => result = ApplyOperation(expression.operator, Values(rs))
        /\ \A a \in {"a", "b"}, b \in {"a", "b"} :
             /\ expression = OperationNode("-", <<JSString(StrLex(a)), JSString(StrLex(b))>>)
                => result = Throw("LiteralOperationError")
             /\ expression = OperationNode("+", <<JSString(StrLex(a)), JSString(StrLex(b))>>)
                => /\ IsOk(result)
                   /\ result.val.cls = "StringLiteral"
                   /\ result.val.value = a \o b
C6_Witness ==
  /\ Evaluated
  /\ expression = OperationNode("-", <<JSString(StrLex("a")), JSString(StrLex("b"))>>)
  /\ result = Throw("LiteralOperationError")

\* Whether the tree holds, at any depth, an operation node whose operator is
\* no name of the operation table, an aggregate node whose aggregation is no
\* name of the aggregation table, or a functionCall node whose function is
\* not in the registry.
RECURSIVE HasUnknownName(_, _)
HasUnknownName(e, registry) ==
  /\ IsNode(e)
  /\ \/ e.type = "operation" /\ e.operator \notin OperationNames
     \/ e.type = "aggregate" /\ e.aggregation \notin AggregationNames
     \/ e.type = "functionCall"
        /\ (registry = JSUndefined \/ e.function \notin registry.own)
     \/ /\ e.type \in {"operation", "functionCall"}
        /\ \E i \in 1..Len(e.args) : HasUnknownName(e.args[i], registry)

\* C7: a tree that holds an unknown operation, aggregation or function at any
\* depth makes the constructor fail: it is never compiled, so it never
\* evaluates to a value or to null.
C7_UnknownNamesFailConstruction ==
  HasUnknownName(expression, customFunctions) => pc \in {"new", "failed"}

\* The value a functionCall argument stands for: a lexical form is the term
\* it parses to (a variable, its value in the bindings), an array the array
\* of its terms, a nested node its result.
ExpectedArgument(arg) ==
  IF arg.cls = "array"
  THEN LET ts == Sequenced([i \in 1..Len(arg.items) |-> parseTerm(arg.items[i].s)])
       IN IF IsThrow(ts) THEN ts ELSE Ok(JSArray(ts.val))
  ELSE ArgumentResult(arg)
ExpectedArguments(args) == Tuple([i \in 1..Len(args) |-> ExpectedArgument(args[i])])

\* C8: a functionCall node whose function does not raise evaluates to the
\* function applied to the values of its arguments, in order, whether they
\* are lexical forms, term arrays or nested nodes (the function list returns
\* the array of its arguments).
C8_FunctionCallAppliesToArguments ==
  ( /\ Evaluated
    /\ IsNode(expression) /\ expression.type = "functionCall"
    /\ expression.function = "list"
    /\ AllOk(ExpectedArguments(expression.args)) )
  => result = Ok(JSArray(Values(ExpectedArguments(expression.args))))

\* C9: on the Numeric literals of two integers a and b, the nodes '+', '-'
\* and '*' evaluate to a Numeric literal that equals() the Numeric literal
\* of a + b, a - b and a * b.
C9_NumericArithmetic ==
  /\ (Evaluated /\ IsIntegerOperation("+")) => IsNumericOf(result, LeftInt + RightInt)
  /\ (Evaluated /\ IsIntegerOperation("-")) => IsNumericOf(result, LeftInt - RightInt)
  /\ (Evaluated /\ IsIntegerOperation("*")) => IsNumericOf(result, LeftInt * RightInt)
C9_Witness ==
  /\ Evaluated
  /\ IsIntegerOperation("-")
  /\ LeftInt = 1 /\ RightInt = 2
  /\ IsNumericOf(result, 0 - 1)

\* C10: on the Numeric literals of two integers a and b, b non-zero and
\* dividing a, the node '/' evaluates to the Numeric literal of a / b.
C10_NumericDivision ==
  \A q \in Ints :
    ( /\ Evaluated /\ IsIntegerOperation("/")
      /\ RightInt # 0 /\ LeftInt = q * RightInt )
    => IsNumericOf(result, q)

(***************************************************************************)
(* Properties of GROUP BY.                                                 *)
(***************************************************************************)
\* The stage has ended: it completed, or it failed with an error.
Ended == gpc \in {"done", "error"}
Range(f) == { f[i] : i \in DOMAIN f }
KeyOf(b) == _hashBindings(groupVars, b)
\* The input bindings that have the grouping key k, in input order.
InputsOf(k) == SelectSeq(source, LAMBDA b : KeyOf(b) = k)
\* The values of the variable v in a sequence of bindings, in order.
ValuesOf(v, bs) ==
  LET having == SelectSeq(bs, LAMBDA b : has(b, v))
  IN Tuple([i \in 1..Len(having) |-> get(having[i], v)])
Observed(bs) == UNION { { b.content[i].key : i \in 1..Len(b.content) } : b \in Range(bs) }
\* The output binding o carries the payload of the inputs bs: for every
\* variable observed in them, the list of its values in them.
CarriesPayloadOf(o, bs) ==
  /\ hasProperty(o, "__aggregate")
  /\ getProperty(o, "__aggregate").cls = "Map"
  /\ \A v \in Observed(bs) :
       MapGet(getProperty(o, "__aggregate").entries, v) = JSArray(ValuesOf(v, bs))

\* C1: for a finite source and any grouping variables, the stage emits one
\* binding per distinct grouping key, and the binding of a key carries, for
\* every variable observed in the inputs of that key, the list of its values
\* in those inputs in input order.
C1_OneBindingPerKey ==
  Ended =>
    /\ Len(output) = Cardinality({ KeyOf(b) : b \in Range(source) })
    /\ \A k \in { KeyOf(b) : b \in Range(source) } :
         \E j \in 1..Len(output) :
           KeyOf(output[j]) = k /\ CarriesPayloadOf(output[j], InputsOf(k))

\* C2: the stage is a barrier: nothing is emitted before the last binding of
\* the source has been accumulated, nothing is accumulated after an emit,
\* every emitted binding carries a group of its own, and once the source has
\* completed every accumulated group is eventually emitted, once.
SourceCompleted == gpc \in {"emit", "done"}
EmittedGroups ==
  /\ Len(output) <= Len(groups)
  /\ \A j \in 1..Len(output) : getProperty(output[j], "__aggregate") = JSMap(groups[j].val)
C2_FullBarrier ==
  /\ [](output # << >> => consumed = Len(source))
  /\ [][(consumed' # consumed \/ groups' # groups) => output' = << >>]_vars
  /\ []EmittedGroups
  /\ (SourceCompleted ~> (gpc = "done" /\ Len(output) = Len(groups)))
C2_Witness ==
  /\ gpc = "done"
  /\ Len(source) >= 2
  /\ consumed = Len(source)
  /\ Len(groups) = 1
  /\ Len(output) = 1

\* C3: with no grouping variables, a source of N bindings (N at least one)
\* gives one output binding, whose payload holds for every variable all the
\* values of that variable.
C3_EmptyGroupByGivesOneBinding ==
  (Ended /\ groupVars = << >> /\ Len(source) >= 1) =>
    /\ Len(output) = 1
    /\ CarriesPayloadOf(output[1], source)

(***************************************************************************)
(* Properties of the operations.                                           *)
(***************************************************************************)
\* C11: the node bound(?x), its argument given as the string '?x', evaluates
\* on bindings keyed by the registry's variables to the Boolean literal
\* false when ?x is absent and to the Boolean literal true when ?x is mapped
\* to a term; it never raises.
C11_BoundTellsPresence ==
  (Evaluated /\ expression = OperationNode("bound", <<JSString("?x")>>))
  => result = Ok(fromBoolean(has(bindings, Var("x"))))

\* C12: langmatches(tag, range) is the Boolean literal true exactly when,
\* letter case aside, the tag is the range, or the range is '*', or the tag
\* starts with the range followed by '-'.
C12_Langmatches ==
  \A t \in LangTags, r \in LangRanges :
    ( /\ Evaluated
      /\ expression = OperationNode("langmatches", <<JSString(StrLex(t)), JSString(StrLex(r))>>) )
    => result = Ok(fromBoolean(\/ toLowerCase(t) = toLowerCase(r)
                               \/ r = "*"
                               \/ startsWith(toLowerCase(t), toLowerCase(r) \o "-")))

\* C13: for a String literal s and Numeric literals i and n, substr(s, i, n)
\* raises when i is below 1, and otherwise returns the String literal, of
\* the datatype and language tag of s, that holds the characters of s at the
\* positions i .. i + n - 1, counted from 1.
C13_Substr ==
  \A s \in SubstrStrings, i \in Ints, n \in Ints :
    ( /\ Evaluated
      /\ expression = OperationNode("substr",
                        <<JSString(s), JSString(IntLex(i)), JSString(IntLex(n))>>) )
    => IF i < 1 THEN IsThrow(result)
       ELSE LET str == TermOf(s)
                last == IF i + n - 1 > Len(str.value) THEN Len(str.value) ELSE i + n - 1
            IN result = Ok(StringLiteral(SubSeq(str.value, i, last), str.datatype, str.lang))
C13_Witness ==
  /\ Evaluated
  /\ expression = OperationNode("substr",
       <<JSString(StrLex("hello") \o "@en"), JSString(IntLex(2)), JSString(IntLex(2))>>)
  /\ result.val.value = "el"
  /\ result.val.cls = "StringLiteral"
  /\ result.val.lang = JSString("en")
C13_WitnessRaises ==
  /\ Evaluated
  /\ expression = OperationNode("substr",
       <<JSString(StrLex("hello")), JSString(IntLex(0)), JSString(IntLex(2))>>)
  /\ result = Throw("Error")

(***************************************************************************)
(* Properties of the literals.                                             *)
(***************************************************************************)
\* C14: a literal t of any kind built by parseLiteral, written with toRDF
\* and parsed back, gives a literal t' with t'.equals(t) and t.equals(t').
C14_RoundTrip ==
  did = "roundTrip"
  => /\ IsOk(outcome)
     /\ TermEquals(outcome.val, thisLit) = Ok(TRUE)
     /\ TermEquals(thisLit, outcome.val) = Ok(TRUE)
\* The same for the kinds other than Date.
C14_RoundTripButDates ==
  (did = "roundTrip" /\ thisLit.cls # "DateLiteral")
  => /\ IsOk(outcome)
     /\ TermEquals(outcome.val, thisLit) = Ok(TRUE)
     /\ TermEquals(thisLit, outcome.val) = Ok(TRUE)

(***************************************************************************)
(* Properties of the variables.                                            *)
(***************************************************************************)
\* The name of a variable, without the leading '?'.
NameOf(v) == IF startsWith(v.value, "?") THEN SubSeq(v.value, 2, Len(v.value)) ELSE v.value
\* C15: whichever way variables were created (Variable.allocate with or
\* without '?', parseTerm, BindingBase.fromObject), two Variable objects
\* obtained for the same name are one and the same object.
C15_OneObjectPerName ==
  \A u \in obtained, v \in obtained :
    NameOf(u.var) = NameOf(v.var) => u.oid = v.oid
\* The registry only grows and never replaces the object of a name.
C15_RegistryOnlyGrows ==
  [][\A n \in DOMAIN allocated : n \in DOMAIN allocated' /\ allocated'[n] = allocated[n]]_vars
\* Variable.allocate alone hands out one object per name.
C15_AllocateInterns ==
  \A u \in obtained, v \in obtained :
    (u.var.ref = "interned" /\ v.var.ref = "interned" /\ NameOf(u.var) = NameOf(v.var))
    => u.oid = v.oid

(***************************************************************************)
(* Properties of repeated evaluation.                                      *)
(***************************************************************************)
\* Two completions of evaluate agree: both raise, or both return and the
\* values are equal terms (or the same value that is no term).
SameOutcome(r1, r2) ==
  \/ IsThrow(r1) /\ IsThrow(r2)
  \/ /\ IsOk(r1) /\ IsOk(r2)
     /\ IF IsConcreteTerm(r1.val)
        THEN TermEquals(r1.val, r2.val) = Ok(TRUE)
        ELSE r1.val = r2.val
\* C16: evaluation is repeatable: a second evaluate on the same bindings
\* returns a result that equals() the first (or raises as the first did),
\* and the bindings are as they were built.
C16_Repeatable ==
  [][ (pc = "evaluated" /\ pc' = "evaluated" /\ evals' = evals + 1 /\ bindings' = bindings)
      => (SameOutcome(result, result') /\ bindings' \in EvalBindings) ]_vars
\* The same for the expressions that hold no date.
C16_RepeatableWithoutDates ==
  [][ ( /\ pc = "evaluated" /\ pc' = "evaluated" /\ evals' = evals + 1
        /\ bindings' = bindings
        /\ expression \notin DateNodes )
      => (SameOutcome(result, result') /\ bindings' \in EvalBindings) ]_vars
\* A call leaves the bindings as they were built.
C16_BindingsUntouched == Evaluated => bindings \in EvalBindings
\* A date added to a Boolean is later with each evaluation.
C16_DateDrifts ==
  /\ Evaluated /\ evals = 2
  /\ expression = OperationNode("+", <<JSString(DateLex("1970-01-01T00:00:01Z")),
                                       JSString(BoolLex("true"))>>)
  /\ result.val.js.ms = Num(3000)

(***************************************************************************)
(* Properties of the arithmetic of literals.                               *)
(***************************************************************************)
\* What can be observed of a literal: value, datatype, language tag, toJS.
Observable(t) == <<getValue(t), t.datatype, t.lang, toJS(t)>>
\* C17: a.add(b), a.minus(b), a.multiply(b) and a.div(b), whether they
\* return or raise, leave the value, datatype, language tag and native value
\* of a and of b as they were, and the literal returned holds no native
\* value of a or b that can change.
C17_TermsImmutable ==
  did \in Methods
  => /\ Observable(thisLit) = Observable(thisBefore)
     /\ Observable(otherLit) = Observable(otherBefore)
     /\ ~shares
\* The same for every pair but a date with a Boolean, added or subtracted.
C17_ImmutableButShiftedDates ==
  (did \in Methods /\ ~ShiftsInPlace(thisBefore, otherBefore, did))
  => /\ Observable(thisLit) = Observable(thisBefore)
     /\ Observable(otherLit) = Observable(otherBefore)
     /\ ~shares

\* The kinds of the two operands of the last call.
Kinds == <<thisBefore.cls, otherBefore.cls>>
\* C18: an arithmetic operator of the operation table, applied to two
\* literals of any kinds, returns a literal or raises LiteralOperationError
\* and nothing else; with a String operand it returns only for '+' between
\* two Strings.
C18_ArithmeticTotal ==
  did \in ArithmeticOperators
  => /\ \/ IsOk(outcome) /\ isLiteral(outcome.val)
        \/ outcome = Throw("LiteralOperationError")
     /\ ("StringLiteral" \in Range(Kinds) /\ IsOk(outcome))
        => (did = "+" /\ Kinds = <<"StringLiteral", "StringLiteral">>)
\* The same when the left operand is no buffer.
C18_TotalButBuffers ==
  (did \in ArithmeticOperators /\ thisBefore.cls # "BufferLiteral")
  => /\ \/ IsOk(outcome) /\ isLiteral(outcome.val)
        \/ outcome = Throw("LiteralOperationError")
     /\ ("StringLiteral" \in Range(Kinds) /\ IsOk(outcome))
        => (did = "+" /\ Kinds = <<"StringLiteral", "StringLiteral">>)

(***************************************************************************)
(* Properties of the aggregations.                                         *)
(***************************************************************************)
\* The Numeric entries of an array of terms, and the sum of their values.
NumericEntries(items) == SelectSeq(items, LAMBDA t : t.cls = "NumericLiteral")
RECURSIVE Total(_)
Total(items) == IF items = << >> THEN Num(0) ELSE NumAdd(toJS(Head(items)), Total(Tail(items)))
\* The completion returns a Numeric literal whose value is x.
ReturnsNumber(c, x) ==
  IsOk(c) /\ c.val.cls = "NumericLiteral" /\ JSStrictEq(toJS(c.val), x)
\* C19: sum(rows) is the Numeric literal of the sum of the Numeric entries
\* of rows (0 when there is none), whatever else rows holds; avg(rows) is
\* the Numeric literal of that sum over the number of Numeric entries;
\* count(rows) is the Numeric literal of the length of rows.
C19_SumAvgCount ==
  /\ did = "sum" => ReturnsNumber(outcome, Total(NumericEntries(rows.items)))
  /\ (did = "avg" /\ NumericEntries(rows.items) # << >>)
     => ReturnsNumber(outcome, NumDiv(Total(NumericEntries(rows.items)),
                                      Num(Len(NumericEntries(rows.items)))))
  /\ did = "count" => ReturnsNumber(outcome, Num(Len(rows.items)))
C19_Witness ==
  /\ did = "avg"
  /\ Len(rows.items) = 4 /\ Len(NumericEntries(rows.items)) = 3
  /\ ReturnsNumber(outcome, Num(2))
C19_WitnessSum ==
  /\ did = "sum"
  /\ rows = JSArray(<<Lit("a", "string"), Lit("true", "boolean")>>)
  /\ ReturnsNumber(outcome, Num(0))

\* The completion returns a Boolean literal whose value is x.
ReturnsBoolean(c, x) ==
  IsOk(c) /\ c.val.cls = "BooleanLiteral" /\ toJS(c.val) = JSBool(x)
\* The 0 or 1 of a Boolean, and the value of a Numeric literal.
Coerced(t) == IF t.cls = "BooleanLiteral" THEN (IF toJS(t).b THEN Num(1) ELSE Num(0)) ELSE toJS(t)
\* add with a Boolean is AND, minus with a Boolean is OR.
BooleanAndOr ==
  (did \in {"add", "minus"} /\ Kinds = <<"BooleanLiteral", "BooleanLiteral">>)
  => ReturnsBoolean(outcome, IF did = "add" THEN toJS(thisBefore).b /\ toJS(otherBefore).b
                             ELSE toJS(thisBefore).b \/ toJS(otherBefore).b)
\* multiply and div with an operand of one of the kinds return the Boolean
\* literal that tells whether the product, or quotient, of the numbers is 1.
EqualsOneTest(kinds) ==
  (did \in {"multiply", "div"} /\ thisBefore.cls = "BooleanLiteral" /\ otherBefore.cls \in kinds)
  => ReturnsBoolean(outcome,
       JSStrictEq(IF did = "multiply" THEN NumMul(Coerced(thisBefore), Coerced(otherBefore))
                  ELSE NumDiv(Coerced(thisBefore), Coerced(otherBefore)),
                  Num(1)))
\* C20: for a Boolean a, a.add(b) with a Boolean b is the Boolean literal of
\* a AND b, a.minus(b) that of a OR b; a.multiply(b) and a.div(b) return,
\* for a Boolean b as for a Numeric b, the Boolean literal of the test that
\* the product or quotient of the numbers is 1, and do not raise.
C20_BooleanArithmetic ==
  BooleanAndOr /\ EqualsOneTest({"BooleanLiteral", "NumericLiteral"})
\* C20, amended: as above for add and minus; a.multiply(b) and a.div(b)
\* return the Boolean literal of the equals-one test for a Numeric b and
\* raise LiteralOperationError for a Boolean b.
C20_BooleanArithmeticAmended ==
  /\ BooleanAndOr
  /\ EqualsOneTest({"NumericLiteral"})
  /\ (did \in {"multiply", "div"} /\ Kinds = <<"BooleanLiteral", "BooleanLiteral">>)
     => outcome = Throw("LiteralOperationError")
C20_Witness ==
  /\ did = "multiply"
  /\ Kinds = <<"BooleanLiteral", "BooleanLiteral">>
  /\ outcome = Throw("LiteralOperationError")
C20_WitnessNumeric ==
  /\ did = "div"
  /\ Kinds = <<"BooleanLiteral", "NumericLiteral">>
  /\ toJS(thisBefore).b /\ toJS(otherBefore) = Num(1)
  /\ ReturnsBoolean(outcome, TRUE)

(***************************************************************************)
(* Properties of the accumulation and of the emitted bindings.             *)
(***************************************************************************)
\* The binding the map stage takes next, and the group of a key in a table.
Taken == source[consumed + 1]
GroupOf(gs, k) == MapGet(gs, JSString(k))
\* The list a group holds for a variable: none is the empty list.
ListOf(group, v) == IF MapHas(group, v) THEN MapGet(group, v).items ELSE << >>
\* The next binding has a key that was seen and binds a variable for which
\* the group of that key has no list.
BindsNewVariable ==
  /\ gpc = "map" /\ consumed < Len(source)
  /\ MapHas(groups, JSString(KeyOf(Taken)))
  /\ \E i \in 1..Len(Taken.content) :
       ~MapHas(GroupOf(groups, KeyOf(Taken)), Taken.content[i].key)

\* C21: when a binding of a key already seen binds a variable that the
\* group of the key has no list for, the accumulation does not fail: the
\* binding is consumed, every variable it binds has afterwards the list it
\* had before (the empty list if it had none) with the binding's value
\* appended, and the lists of the other variables of the group are as before.
C21_LaterVariableGetsList ==
  [][BindsNewVariable =>
       /\ gpc' = "map" /\ consumed' = consumed + 1
       /\ \A i \in 1..Len(Taken.content) :
            ListOf(GroupOf(groups', KeyOf(Taken)), Taken.content[i].key)
              = Append(ListOf(GroupOf(groups, KeyOf(Taken)), Taken.content[i].key),
                       Taken.content[i].val)
       /\ \A j \in 1..Len(GroupOf(groups, KeyOf(Taken))) :
            LET v == GroupOf(groups, KeyOf(Taken))[j].key
            IN ~has(Taken, v) =>
                 ListOf(GroupOf(groups', KeyOf(Taken)), v)
                   = ListOf(GroupOf(groups, KeyOf(Taken)), v)]_vars

\* The first input binding that has the key of the j-th group.
FirstOfGroup(j) == InputsOf(groups[j].key.s)[1]
\* The j-th emitted binding maps exactly the grouping variables that the
\* first binding of its key binds, each to that binding's value.
RestrictedToGroupingVariables(j) ==
  /\ \A i \in 1..Len(output[j].content) :
       /\ InVariables(groupVars, output[j].content[i].key)
       /\ has(FirstOfGroup(j), output[j].content[i].key)
       /\ get(FirstOfGroup(j), output[j].content[i].key) = output[j].content[i].val
  /\ \A i \in 1..Len(groupVars) :
       has(FirstOfGroup(j), groupVars[i]) => has(output[j], groupVars[i])

C23_ReturnsFreshInstance ==
  /\ called \in ReturningBindings =>
       /\ IsOk(returned) /\ returned.val.cls = "Bindings" /\ returnedObject = "new"
       /\ receiver = receiverBefore /\ argument = argumentBefore
  /\ called \in {"set", "setProperty"} =>
       /\ receiver = receiverBefore /\ argument = argumentBefore
\* The part that holds: whatever the call does, and whether it returns or
\* throws, the receiver and the argument are as they were, and what is
\* returned is a new instance.
C23_ReceiverAndArgumentUnchanged ==
  /\ receiver = receiverBefore /\ argument = argumentBefore
  /\ (called \in ReturningBindings /\ IsOk(returned)) => returnedObject = "new"
C23_WrittenAfterReturn ==
  /\ called \in {"set", "setProperty"}
  /\ returned.val # receiver

\* The mappings of a Bindings, in insertion order, as forEach is to give
\* them to its callback: the Variable object that is the key, and the term.
Mappings(b) ==
  Tuple([i \in 1..Len(b.content) |->
           [variable |-> b.content[i].key, value |-> b.content[i].val]])

\* C24: forEach on a Bindings of k mappings calls its callback k times and
\* does not raise: once per mapping, in insertion order, with the Variable
\* object that is the key and the term it maps to; so clone, filter,
\* toObject, some and every (all of them a forEach over the receiver) visit
\* every mapping once and return.
C24_ForEachVisitsEveryMapping ==
  called \in {"clone", "filter", "toObject", "some", "every"} =>
    /\ IsOk(returned)
    /\ Len(visited) = Len(receiver.content)
    /\ visited = Mappings(receiver)

\* Whether two bindings agree on a variable: both leave it unbound, or both
\* bind it, to terms that are equal under equals.
AgreeOn(a, b, v) ==
  \/ ~has(a, v) /\ ~has(b, v)
  \/ has(a, v) /\ has(b, v) /\ TermEquals(get(a, v), get(b, v)).val

\* C25: two bindings have the same grouping key exactly when they agree on
\* every grouping variable: no two bindings that differ on a grouping
\* variable share a key, whatever text the terms hold, and two bindings that
\* agree on all of them do share it.
C25_KeyInjective ==
  called = "_hashBindings" =>
    (returned.val.this = returned.val.other
       <=> \A i \in 1..Len(returned.val.variables) :
             AgreeOn(receiver, argument, returned.val.variables[i]))
\* Two bindings that differ on a grouping variable and have the same key.
C25_SeparatorCollides ==
  /\ called = "_hashBindings"
  /\ returned.val.this = returned.val.other
  /\ \E i \in 1..Len(returned.val.variables) :
       ~AgreeOn(receiver, argument, returned.val.variables[i])
\* Two bindings that agree on every grouping variable and have two keys.
C25_EqualTermsTwoKeys ==
  /\ called = "_hashBindings"
  /\ returned.val.this # returned.val.other
  /\ \A i \in 1..Len(returned.val.variables) :
       AgreeOn(receiver, argument, returned.val.variables[i])

(***************************************************************************)
(* Properties of the comparison of terms.                                  *)
(***************************************************************************)
\* C26: a term compared with itself: equals is true, compareTo is 0, '='
\* gives the Boolean literal true and '!=' the Boolean literal false.
C26_EqualsReflexive ==
  (did = "compare" /\ outcome.val.this = outcome.val.other) =>
    /\ outcome.val.equals = Ok(TRUE)
    /\ outcome.val.compareTo = Ok(0)
    /\ outcome.val.eq = Ok(fromBoolean(TRUE))
    /\ outcome.val.ne = Ok(fromBoolean(FALSE))
\* The same, but for the dates and for the numeric literals that hold NaN.
C26_ReflexiveButDatesAndNaN ==
  (/\ did = "compare" /\ outcome.val.this = outcome.val.other
   /\ outcome.val.this.cls # "DateLiteral"
   /\ ~(outcome.val.this.cls = "NumericLiteral" /\ outcome.val.this.js = NaN)) =>
    /\ outcome.val.equals = Ok(TRUE)
    /\ outcome.val.compareTo = Ok(0)
    /\ outcome.val.eq = Ok(fromBoolean(TRUE))
    /\ outcome.val.ne = Ok(fromBoolean(FALSE))
\* compareTo of a term with itself is 0 for every term.
C26_CompareToReflexive ==
  (did = "compare" /\ outcome.val.this = outcome.val.other) =>
    outcome.val.compareTo = Ok(0)

(***************************************************************************)
(* Properties of the numeric literals.                                     *)
(***************************************************************************)
\* The lexical value of a numeric literal denotes its native value.
Denotes(t) == t.cls = "NumericLiteral" => Number(getValue(t)) = toJS(t)

\* C27: every numeric literal there is, parsed, built from a number or
\* returned by add, minus, multiply or div, has a lexical value that denotes
\* the number that is its native value.
C27_LexicalDenotesNative ==
  /\ thisLit # None => Denotes(thisLit) /\ Denotes(otherLit)
  /\ rows # None => \A i \in 1..Len(rows.items) : Denotes(rows.items[i])
  /\ (did \in Methods \cup ArithmeticOperators \cup {"sum", "avg", "roundTrip"}
        /\ IsOk(outcome)) => Denotes(outcome.val)
\* The same without the results of the four methods: the literals that were
\* parsed or built by fromInteger and fromFloat.
C27_DenotesButArithmetic ==
  /\ thisLit # None => Denotes(thisLit) /\ Denotes(otherLit)
  /\ rows # None => \A i \in 1..Len(rows.items) : Denotes(rows.items[i])
  /\ (did \in {"sum", "avg", "roundTrip"} /\ IsOk(outcome)) => Denotes(outcome.val)
\* A numeric literal returned by a method whose text is "0" and whose native
\* value is another number.
C27_ResultKeepsZeroText ==
  /\ did \in Methods /\ IsOk(outcome)
  /\ outcome.val.cls = "NumericLiteral"
  /\ getValue(outcome.val) = "0" /\ toJS(outcome.val) # Num(0)

\* The variables a Bindings maps.
VariablesOf(b) == { b.content[i].key : i \in 1..Len(b.content) }

\* C28: a.intersection(b) holds exactly the mappings of a whose variable b
\* binds to a term equal under equals; so the variables of a.intersection(b)
\* and of a.difference(b) are disjoint and together the variables of a.
C28_IntersectionByEquals ==
  called = "intersection" =>
    /\ IsOk(returned)
    /\ Mappings(returned.val)
         = SelectSeq(Mappings(receiver),
                     LAMBDA m : /\ has(argument, m.variable)
                                /\ TermEquals(m.value, get(argument, m.variable)).val)
    /\ IsOk(difference(receiver, argument))
    /\ VariablesOf(returned.val) \cap VariablesOf(difference(receiver, argument).val) = {}
    /\ VariablesOf(returned.val) \cup VariablesOf(difference(receiver, argument).val)
         = VariablesOf(receiver)

(***************************************************************************)
(* Properties of ResultsFormatter.apply.                                   *)
(***************************************************************************)
\* The places of the output that hold a formatted binding, the head, and
\* the value of the of stage.
FormattedAt == { i \in 1..Len(emitted) : emitted[i].value # JSNull
                                           /\ emitted[i].value.cls = "formatted" }
HeadAt == { i \in 1..Len(emitted) : emitted[i].value # JSNull
                                      /\ emitted[i].value.cls = "head" }
AppendedAt == { i \in 1..Len(emitted) : emitted[i].stage = "of" }
FormatEnded == taken = Len(fsource) /\ ~ofPending
\* _prepend is called at most once, with the first binding of the source;
\* its result, if not null, is delivered right before the first formatted
\* binding; the formatted bindings are delivered in the order of the source,
\* one per binding taken.
PrependsAndFormatsInOrder ==
  /\ Len(prepended) <= 1
  /\ prepended # << >> => prepended[1] = fsource[1]
  /\ \A i \in HeadAt :
       /\ emitted[i].value = _prepend(formatter, fsource[1])
       /\ i + 1 \in FormattedAt
       /\ \A j \in FormattedAt : i + 1 <= j
  /\ Cardinality(HeadAt) <= 1
  /\ (formatter.prepends /\ taken >= 1) => HeadAt # {}
  /\ SelectSeq(emitted, LAMBDA e : e.value # JSNull /\ e.value.cls = "formatted")
       = [i \in 1..taken |-> Delivered("flatMap", _format(formatter, fsource[i]))]
\* The result of _append is delivered at most once, and once when the
\* stages have ended.
AppendsOnce ==
  /\ Cardinality(AppendedAt) <= 1
  /\ \A i \in AppendedAt : emitted[i].value = _append(formatter)
  /\ FormatEnded => Cardinality(AppendedAt) = 1

\* C29: _prepend is called at most once, with the first source binding, and
\* its non-null result comes right before the first formatted binding; the
\* formatted bindings come in source order, one per source binding; and
\* the result of _append comes once, after every formatted binding: when
\* it is delivered every binding of the source has been formatted and
\* delivered, and nothing is delivered after it.
C29_AppendComesLast ==
  /\ PrependsAndFormatsInOrder
  /\ AppendsOnce
  /\ \A i \in AppendedAt : taken = Len(fsource) /\ i = Len(emitted)
\* The part that holds in every interleaving.
C29_AllButThePlaceOfAppend == PrependsAndFormatsInOrder /\ AppendsOnce
\* The result of _append delivered before a formatted binding.
C29_AppendBeforeFormatted ==
  \E i \in AppendedAt : \E j \in FormattedAt : i < j

(***************************************************************************)
(* Properties of the property paths.                                       *)
(***************************************************************************)
\* Two paths are the same: the same path type, as many items, and the items
\* equal one by one, terms under equals and sub-paths as paths.
RECURSIVE SamePath(_, _)
SamePath(p, q) ==
  /\ p.pathType = q.pathType
  /\ Len(p.items) = Len(q.items)
  /\ \A i \in 1..Len(p.items) :
       IF p.items[i].cls = "Path" /\ q.items[i].cls = "Path"
       THEN SamePath(p.items[i], q.items[i])
       ELSE /\ p.items[i].cls # "Path" /\ q.items[i].cls # "Path"
            /\ TermEquals(p.items[i], q.items[i]).val

\* C30: Path.equals answers true exactly for two paths of the same path
\* type with as many items, equal one by one; two paths of different path
\* types are not equal, and NodePath.equals is false for two nodes whose
\* paths have different path types.
C30_PathEquals ==
  /\ compared = "Path.equals" =>
       answer = Ok(SamePath(thisNode.path, otherNode.path))
  /\ (compared = "NodePath.equals"
        /\ thisNode.path.pathType # otherNode.path.pathType) => answer = Ok(FALSE)
\* Two paths of different types that Path.equals calls equal.
C30_DifferentTypesEqual ==
  /\ compared = "Path.equals"
  /\ thisNode.path.pathType # otherNode.path.pathType
  /\ answer = Ok(TRUE)
\* Two paths of the same type on which Path.equals throws.
C30_SameTypeThrows ==
  /\ compared = "Path.equals"
  /\ thisNode.path.pathType = otherNode.path.pathType
  /\ IsThrow(answer)
\* Path.equals never answers false.
C30_NeverFalse == compared = "Path.equals" => answer # Ok(FALSE)

=============================================================================
